---- MODULE Spec2Model ----
(***************************************************************************)
(* Model of the Nordic private-credit ETL pipeline (etl_pipeline.py):      *)
(* the OAuth2 token manager shared by the worker threads, the concurrent   *)
(* batch extraction, the reconciliation with the Finansinspektionen data   *)
(* and the bulk upsert into the companies table.                           *)
(***************************************************************************)
EXTENDS Integers, Sequences, FiniteSets, TLC

(***************************************************************************)
(* Bounds of the model.                                                    *)
(***************************************************************************)
\* number of worker threads of the pool (max_workers of the extractor)
MaxWorkers == 2
\* value of time.time() when the extractor is constructed
StartTime == 1000
\* seconds by which one clock step advances time.time()
TickStep == 100
\* number of clock steps
MaxTicks == 1
\* number of credential-exchange requests sent to the token endpoint
MaxExchanges == 3

(***************************************************************************)
(* Program constants.                                                      *)
(***************************************************************************)
\* the safety margin subtracted from expires_in
Margin == 300
\* the lifetime assumed when the endpoint reports no expires_in
DefaultExpiresIn == 3600

\* Python's None; as a token ("" is falsy too) and as an expiry (0.0 is falsy)
None == 0
\* token_lock when no thread holds it
Free == 0 - 1
\* the thread that runs main and extract_batch_data
MainThread == 0
Workers == 1..MaxWorkers
Threads == {MainThread} \cup Workers

(***************************************************************************)
(* What the token endpoint can answer.                                     *)
(***************************************************************************)
StatusCodes == {200, 302, 401}
ExpiresInValues == {300, 400}
\* expires_in = None: the key is absent from the JSON document;
\* bad_expires_in: the document has an access_token and an expires_in that is
\* no number (null, a string)
TokenBodies ==
    [kind : {"token"}, expires_in : ExpiresInValues \cup {None}]
      \cup [kind : {"no_access_token", "not_json"}, expires_in : {None}]
\* raised: requests.post raised (timeout, connection error) instead of answering
TokenResponses ==
    [raised : {FALSE}, status : StatusCodes, body : TokenBodies]
      \cup {[raised |-> TRUE, status |-> None,
             body |-> [kind |-> "not_json", expires_in |-> None]],
            [raised |-> FALSE, status |-> 200,
             body |-> [kind |-> "bad_expires_in", expires_in |-> None]]}

VARIABLES
    now,            \* time.time()
    token,          \* self.token
    token_expiry,   \* self.token_expiry
    token_lock,     \* holder of self.token_lock, or Free
    tpc,            \* per thread: where it is in get_access_token
    ret,            \* per thread: the value its last call returned
    err,            \* per thread: the exception its last call raised
    resp,           \* per thread: the answer its last exchange request got
                    \*   (status and kind of body)
    call,           \* per thread: whether the call began with no token cached,
                    \*   and the exchange requests it has sent
    exchanges,      \* credential-exchange requests sent so far
    failed,         \* whether a credential-exchange request has ended in an exception
    realExpiry      \* the cached token's issue time + lifetime

tokenVars == <<now, token, token_expiry, token_lock, tpc, ret, err, resp, call,
               exchanges, failed, realExpiry>>

VARIABLES
    companies,        \* the committed rows of table companies
    txn,              \* the table as the open transaction sees it
    fi_data,          \* the rows of fi_nordic_cleaned_utf8_bom.csv
    bolagsverket_df,  \* the DataFrame of extracted records
    merged_df,        \* the DataFrame the merge returned
    data_rows,        \* bulk_upsert_companies: data_rows
    duplicate_count,  \* bulk_upsert_companies: duplicate_count
    page,             \* rows sent to the database so far
    lpc,              \* where the reconcile-and-load step is
    load_result,      \* the dictionary bulk_upsert_companies returned
    db_time,          \* CURRENT_TIMESTAMP of the latest transaction
    before,           \* the committed table when the load began
    repeated,         \* whether this load repeats the previous load's input
    version,          \* the version of the source data this load reads
    fi_keys,          \* the keys of the rows of the Finansinspektionen file
    fi_file_ok,       \* whether the file is read and has its key column
    records,          \* the identifiers looked up and the status of each lookup
    loads             \* loads begun so far

loadVars == <<companies, txn, fi_data, bolagsverket_df, merged_df, data_rows,
              duplicate_count, page, lpc, load_result, db_time, before,
              repeated, version, fi_keys, fi_file_ok, records, loads>>

VARIABLES
    max_workers,      \* self.max_workers of the extractor
    ids_file,         \* the lines of bolagsverket_corporate_ids.txt
    mpc,              \* where main is
    org_ids,          \* main: org_ids
    org_batches,      \* extract_batch_data: org_batches
    task_state,       \* per batch: the state of its future
    task_results,     \* per batch: the results of process_organization_batch
    task_outcomes,    \* per batch: what each lookup of the batch met
    worker_task,      \* per pool thread: the batch it is processing, or 0
    collected,        \* the batches whose future main has taken from as_completed
    results,          \* extract_batch_data: results
    main_error,       \* the exception caught by main
    run_info,         \* etl_last_run.json as this run wrote it
    run_start_table   \* the committed table when main began

runVars == <<max_workers, ids_file, mpc, org_ids, org_batches, task_state,
             task_results, task_outcomes, worker_task, collected, results,
             main_error, run_info, run_start_table>>

VARIABLES
    org_number,       \* query_single_organisation: org_number
    response,         \* what session.post gave: a response, or an exception
    api_response,     \* what query_single_organisation returned
    parsed_data,      \* what parse_organisation_data returned
    sv_value,         \* safe_value: value
    sv_type,          \* safe_value: value_type
    safe_result       \* what safe_value returned

callVars == <<org_number, response, api_response, parsed_data, sv_value,
              sv_type, safe_result>>

NoError == [type |-> "none", status |-> None]
NoResponse == [raised |-> FALSE, status |-> None, kind |-> "none"]
NoCall == [uncached |-> FALSE, posts |-> 0]

\* BolagsverketExtractor.__init__
TokenInit ==
    /\ now = StartTime
    /\ token = None
    /\ token_expiry = None
    /\ token_lock = Free
    /\ tpc = [t \in Threads |-> "idle"]
    /\ ret = [t \in Threads |-> None]
    /\ err = [t \in Threads |-> NoError]
    /\ resp = [t \in Threads |-> NoResponse]
    /\ call = [t \in Threads |-> NoCall]
    /\ exchanges = 0
    /\ failed = FALSE
    /\ realExpiry = None

\* if self.token and self.token_expiry and time.time() < self.token_expiry
CacheValid(tok, expiry, t) == tok # None /\ expiry # None /\ t < expiry

\* mutant of RespOk: only 5xx answers are taken as failures
RespOk_Only5xx(status) == status < 500

\* requests.Response.ok: raise_for_status raises for 4xx and 5xx only
RespOk(status) == status < 400

\* token_data.get('expires_in', 3600)
ExpiresIn(body) ==
    IF body.expires_in = None THEN DefaultExpiresIn ELSE body.expires_in

\* mutant of NewExpiry: the margin is not subtracted
NewExpiry_NoMargin(t, body) == t + ExpiresIn(body)

\* time.time() + (token_data.get('expires_in', 3600) - 300)
NewExpiry(t, body) == t + (ExpiresIn(body) - Margin)

\* a thread enters get_access_token and waits for the lock
EnterGetAccessToken(t) ==
    /\ tpc[t] = "idle"
    /\ tpc' = [tpc EXCEPT ![t] = "acquire"]
    /\ call' = [call EXCEPT ![t] = [uncached |-> (token = None), posts |-> 0]]
    /\ UNCHANGED <<now, token, token_expiry, token_lock, ret, err, resp,
                   exchanges, failed, realExpiry>>

\* a caller outside the pipeline calls get_access_token
CallGetAccessToken(t) ==
    /\ EnterGetAccessToken(t)
    /\ UNCHANGED <<loadVars, runVars, callVars>>

\* with self.token_lock: the cache test; a hit returns, a miss sends the request
GetAccessToken_Check(t) ==
    /\ tpc[t] = "acquire"
    /\ token_lock = Free
    /\ IF CacheValid(token, token_expiry, now)
       THEN /\ tpc' = [tpc EXCEPT ![t] = "returned"]
            /\ ret' = [ret EXCEPT ![t] = token]
            /\ UNCHANGED <<token_lock, exchanges, call>>
       ELSE /\ exchanges < MaxExchanges
            /\ token_lock' = t
            /\ exchanges' = exchanges + 1
            /\ call' = [call EXCEPT ![t].posts = @ + 1]
            /\ tpc' = [tpc EXCEPT ![t] = "post"]
            /\ UNCHANGED ret
    /\ UNCHANGED <<now, token, token_expiry, err, resp, failed, realExpiry>>
    /\ UNCHANGED <<loadVars, runVars, callVars>>

\* the exception get_access_token raises for an answer, or "none"
ExchangeError(r) ==
    IF r.raised THEN [type |-> "RequestException", status |-> None]
    ELSE IF ~RespOk(r.status) THEN [type |-> "HTTPError", status |-> r.status]
    ELSE IF r.body.kind = "not_json" THEN [type |-> "ValueError", status |-> None]
    ELSE IF r.body.kind = "no_access_token" THEN [type |-> "KeyError", status |-> None]
    ELSE IF r.body.kind = "bad_expires_in" THEN [type |-> "TypeError", status |-> None]
    ELSE NoError

\* self.token when get_access_token raises: the TypeError of the expiry's
\* arithmetic comes after self.token = token_data["access_token"]
TokenAfterError(r, old_token, new_token) ==
    IF ExchangeError(r).type = "TypeError" THEN new_token ELSE old_token

\* the answer of the token endpoint arrives: raise, or cache the token and return
GetAccessToken_Response(t, r) ==
    /\ tpc[t] = "post"
    /\ token_lock = t
    /\ resp' = [resp EXCEPT ![t] = [raised |-> r.raised, status |-> r.status,
                                    kind |-> r.body.kind]]
    /\ token_lock' = Free
    /\ IF ExchangeError(r) # NoError
       THEN /\ tpc' = [tpc EXCEPT ![t] = "raised"]
            /\ err' = [err EXCEPT ![t] = ExchangeError(r)]
            /\ failed' = TRUE
            /\ token' = TokenAfterError(r, token, exchanges)
            /\ UNCHANGED <<token_expiry, ret, realExpiry>>
       ELSE /\ token' = exchanges
            /\ token_expiry' = NewExpiry(now, r.body)
            /\ realExpiry' = now + ExpiresIn(r.body)
            /\ tpc' = [tpc EXCEPT ![t] = "returned"]
            /\ ret' = [ret EXCEPT ![t] = exchanges]
            /\ UNCHANGED <<err, failed>>
    /\ UNCHANGED <<now, exchanges, call>>
    /\ UNCHANGED <<loadVars, runVars, callVars>>

\* the caller takes the result; the thread may call again
FinishCall(t) ==
    /\ tpc[t] \in {"returned", "raised"}
    /\ tpc' = [tpc EXCEPT ![t] = "idle"]
    /\ ret' = [ret EXCEPT ![t] = None]
    /\ err' = [err EXCEPT ![t] = NoError]
    /\ resp' = [resp EXCEPT ![t] = NoResponse]
    /\ call' = [call EXCEPT ![t] = NoCall]
    /\ UNCHANGED <<now, token, token_expiry, token_lock, exchanges, failed,
                   realExpiry>>
    /\ UNCHANGED <<loadVars, runVars, callVars>>

\* time passes
Tick ==
    /\ now < StartTime + MaxTicks * TickStep
    /\ now' = now + TickStep
    /\ UNCHANGED <<token, token_expiry, token_lock, tpc, ret, err, resp, call,
                   exchanges, failed, realExpiry>>
    /\ UNCHANGED <<loadVars, runVars, callVars>>

(***************************************************************************)
(* The token manager called by the worker threads at any time.             *)
(***************************************************************************)
TokenNext ==
    \/ \E t \in Workers : CallGetAccessToken(t)
    \/ \E t \in Workers : GetAccessToken_Check(t)
    \/ \E t \in Workers : \E r \in TokenResponses : GetAccessToken_Response(t, r)
    \/ \E t \in Workers : FinishCall(t)
    \/ Tick



(***************************************************************************)
(* Reconciliation and load: merge_with_finansinspektionen_data and         *)
(* DatabaseOperations.bulk_upsert_companies against the companies table.   *)
(***************************************************************************)
\* rows of the Finansinspektionen file, and records of one extraction
MaxRows == 2
\* rows per INSERT statement of execute_values (page_size=1000 in the source,
\* scaled down so that a load of MaxRows rows is sent in several pages)
PageSize == 1
\* loads in one behaviour
MaxLoads == 2
\* latest value of the database server's CURRENT_TIMESTAMP
MaxDbTime == 1

\* every cell value is a tuple headed by a string
NaN == <<"NaN">>
NULL == <<"NULL">>
PyTrue == <<"True">>
PyFalse == <<"False">>

\* identifiers are strings, modelled as sequences of characters
DigitChars == <<"0", "1", "2", "3", "4", "5", "6", "7", "8", "9">>
IsDigit(c) == \E i \in 1..10 : DigitChars[i] = c
DigitValue(c) == (CHOOSE i \in 1..10 : DigitChars[i] = c) - 1

RECURSIVE LStrip(_)
LStrip(s) == IF s # <<>> /\ Head(s) = " " THEN LStrip(Tail(s)) ELSE s
RECURSIVE RStrip(_)
RStrip(s) ==
    IF s # <<>> /\ s[Len(s)] = " " THEN RStrip(SubSeq(s, 1, Len(s) - 1)) ELSE s
\* str.strip()
StrStrip(s) == RStrip(LStrip(s))
IsNotHyphen(c) == c # "-"
\* str.replace('-', '')
RemoveHyphens(s) == SelectSeq(s, IsNotHyphen)

AllDigits(s) == s # <<>> /\ \A i \in 1..Len(s) : IsDigit(s[i])
RECURSIVE DigitsValue(_)
DigitsValue(s) ==
    IF s = <<>> THEN 0
    ELSE 10 * DigitsValue(SubSeq(s, 1, Len(s) - 1)) + DigitValue(s[Len(s)])
\* pd.to_numeric(..., errors='coerce').fillna(0).astype(int): a cell that is
\* not a number (a hyphenated key, a blank) becomes 0
ToNumericOrZero(s) ==
    LET u == StrStrip(s)
    IN  IF AllDigits(u) THEN DigitsValue(u)
        ELSE IF u # <<>> /\ Head(u) = "-" /\ AllDigits(Tail(u))
             THEN 0 - DigitsValue(Tail(u))
        ELSE 0
RECURSIVE NatToStr(_)
NatToStr(n) ==
    IF n < 10 THEN <<DigitChars[n + 1]>>
    ELSE NatToStr(n \div 10) \o <<DigitChars[(n % 10) + 1]>>
\* astype(str) of an integer
IntToStr(n) == IF n < 0 THEN <<"-">> \o NatToStr(0 - n) ELSE NatToStr(n)

\* fi_df['CorporateID_Clean'] = pd.to_numeric(...).fillna(0).astype(int).astype(str)
NormalizeFiKey(raw) == IntToStr(ToNumericOrZero(raw))
\* bolagsverket_df['org_number'].astype(str).str.replace('-', '').str.strip()
NormalizeOrgNumber(raw) == StrStrip(RemoveHyphens(raw))

(***************************************************************************)
(* The inputs of a load.                                                   *)
(***************************************************************************)
FiKeys == {<<"1", "2">>, <<"3">>}
\* the lookups of an extraction: the identifier sent and the status of its record
Lookups == {<< <<"1", "-", "2">>, "success" >>, << <<"3">>, "success" >>,
            << <<"3">>, "error" >>}
\* two versions of the source data: every cell differs between them
Versions == {1, 2}

SeqsUpTo(S, n) == UNION {[1..k -> S] : k \in 0..n}

\* the Finansinspektionen file with keys ks; row i of version ver
FiFile(ks, ver) ==
    [i \in 1..Len(ks) |->
        [CorporateID_Clean |-> ks[i], Category |-> <<"category", ver, i>>]]

\* the record parse_organisation_data returns: the fields of a success, and
\* for a failure the identifier and status only (NaN in the DataFrame)
ParsedRecord(org, status, ver, i) ==
    IF status = "success"
    THEN [org_number |-> org, api_status |-> <<"success">>,
          organisation_name |-> <<"name", ver, i>>,
          is_active |-> IF ver = 1 THEN PyTrue ELSE PyFalse,
          is_deregistered |-> IF ver = 1 THEN PyFalse ELSE PyTrue,
          registration_date |-> <<"date", ver, i>>,
          city |-> <<"city", ver, i>>,
          sni_code |-> <<"sni", ver, i>>,
          legal_form_code |-> <<"legal_form", ver, i>>,
          query_timestamp |-> <<"queried", ver, i>>]
    ELSE [org_number |-> org, api_status |-> <<status>>,
          organisation_name |-> NaN, is_active |-> NaN, is_deregistered |-> NaN,
          registration_date |-> NaN, city |-> NaN, sni_code |-> NaN,
          legal_form_code |-> NaN, query_timestamp |-> NaN]
\* pd.DataFrame(results)
ResultFrame(rs, ver) ==
    [i \in 1..Len(rs) |->
        IF Len(rs[i]) = 3
        THEN [ParsedRecord(rs[i][1], rs[i][2], ver, i)
                 EXCEPT !.registration_date = rs[i][3]]
        ELSE ParsedRecord(rs[i][1], rs[i][2], ver, i)]

(***************************************************************************)
(* merge_with_finansinspektionen_data                                      *)
(***************************************************************************)
\* a row of the left join: the file's row with the matching record's columns
MergedRow(f, r) ==
    [CorporateID_Clean |-> NormalizeFiKey(f.CorporateID_Clean),
     Category |-> f.Category,
     api_status |-> r.api_status,
     organisation_name |-> r.organisation_name,
     is_active |-> r.is_active,
     is_deregistered |-> r.is_deregistered,
     registration_date |-> r.registration_date,
     city |-> r.city,
     sni_code |-> r.sni_code,
     legal_form_code |-> r.legal_form_code,
     query_timestamp |-> r.query_timestamp]
\* a row of the file that no record matches: the record's columns are NaN
UnmatchedRow(f) ==
    MergedRow(f, ParsedRecord(NaN, "NaN", 0, 0) )

\* mutant of SelectMatches: every record matches every key
SelectMatches_All(df, key) == df

RECURSIVE SelectMatches(_, _)
SelectMatches(df, key) ==
    IF df = <<>> THEN <<>>
    ELSE (IF NormalizeOrgNumber(Head(df).org_number) = key
          THEN <<Head(df)>> ELSE <<>>) \o SelectMatches(Tail(df), key)

\* fi_df.merge(bolagsverket_df, left_on='CorporateID_Clean',
\*             right_on='org_number', how='left')
RECURSIVE MergeRows(_, _)
MergeRows(fi, df) ==
    IF fi = <<>> THEN <<>>
    ELSE LET f == Head(fi)
             matches == SelectMatches(df, NormalizeFiKey(f.CorporateID_Clean))
         IN  (IF matches = <<>> THEN <<UnmatchedRow(f)>>
              ELSE [j \in 1..Len(matches) |-> MergedRow(f, matches[j])])
             \o MergeRows(Tail(fi), df)

(***************************************************************************)
(* bulk_upsert_companies                                                   *)
(***************************************************************************)
RECURSIVE DropDuplicatesSeen(_, _)
DropDuplicatesSeen(rows, seen) ==
    IF rows = <<>> THEN <<>>
    ELSE IF Head(rows).CorporateID_Clean \in seen
         THEN DropDuplicatesSeen(Tail(rows), seen)
         ELSE <<Head(rows)>>
              \o DropDuplicatesSeen(Tail(rows),
                                    seen \cup {Head(rows).CorporateID_Clean})
\* df.drop_duplicates(subset=['CorporateID_Clean'], keep='first')
DropDuplicates(rows) == DropDuplicatesSeen(rows, {})

\* Python values of a cell: None, float nan and the booleans above, a str as
\* its characters, an int as its value
PyStr(chars) == <<"str">> \o chars
PyInt(n) == <<"int", n>>
IsPyStr(value) == Head(value) = "str"
IsPyInt(value) == Head(value) = "int"
IsPyBool(value) == value = PyTrue \/ value = PyFalse
Chars(value) == Tail(value)
\* every other cell is a text of the frames above (<<"name", ver, i>> and the
\* like): a str without surrounding blanks that is none of the words below
IsText(value) == Head(value) \notin {"NaN", "NULL", "True", "False", "str", "int"}

\* str.lower() on the letters that occur
UpperChars == <<"A", "E", "F", "J", "L", "N", "O", "R", "S", "T", "U", "Y">>
LowerChars == <<"a", "e", "f", "j", "l", "n", "o", "r", "s", "t", "u", "y">>
LowerChar(c) ==
    IF \E i \in DOMAIN UpperChars : UpperChars[i] = c
    THEN LowerChars[CHOOSE i \in DOMAIN UpperChars : UpperChars[i] = c]
    ELSE c
\* mutant of Lower: the comparison is case-sensitive
Lower_Identity(chars) == chars
Lower(chars) == [i \in DOMAIN chars |-> LowerChar(chars[i])]

\* str(value)
Str(value) ==
    IF IsPyStr(value) THEN Chars(value)
    ELSE IF IsPyInt(value) THEN IntToStr(value[2])
    ELSE IF value = PyTrue THEN <<"T", "r", "u", "e">>
    ELSE IF value = PyFalse THEN <<"F", "a", "l", "s", "e">>
    ELSE IF value = NULL THEN <<"N", "o", "n", "e">>
    ELSE <<"n", "a", "n">>

\* ['true', '1', 'yes', 'ja', 'y']
AffirmativeWords ==
    {<<"t", "r", "u", "e">>, <<"1">>, <<"y", "e", "s">>, <<"j", "a">>, <<"y">>}

\* bool(value) of a value that is neither a bool nor a str
Bool(value) == IF value[2] # 0 THEN PyTrue ELSE PyFalse

\* safe_value
SafeValue(value, value_type) ==
    IF IsText(value)
    THEN (IF value_type = "bool" THEN PyFalse ELSE value)
    ELSE IF value = NaN \/ value = NULL \/ Lower(Str(value)) = <<"n", "a", "n">>
    THEN NULL
    ELSE IF value_type = "bool"
    THEN (IF IsPyBool(value) THEN value
          ELSE IF IsPyStr(value)
          THEN (IF Lower(Chars(value)) \in AffirmativeWords
                THEN PyTrue ELSE PyFalse)
          ELSE Bool(value))
    ELSE IF value_type = "str"
    THEN (IF StrStrip(Str(value)) # <<>>
          THEN PyStr(StrStrip(Str(value))) ELSE NULL)
    ELSE value

\* len(reg_date) >= 10 and reg_date[:10]
DateLen == 10
\* reg_date: a str of at least 10 characters is cut to 10, anything else is
\* None; the dates of the frames above are texts of 10 characters
RegDate(value) ==
    IF IsText(value) THEN value
    ELSE IF IsPyStr(value) /\ Len(Chars(value)) >= DateLen
    THEN PyStr(SubSeq(Chars(value), 1, DateLen))
    ELSE NULL

\* registration_date DATE: the text the column takes, year-month-day
TwoDigits(chars, i) == 10 * DigitValue(chars[i]) + DigitValue(chars[i + 1])
DaysIn(month) ==
    IF month = 2 THEN 29 ELSE IF month \in {4, 6, 9, 11} THEN 30 ELSE 31
IsIsoDate(chars) ==
    /\ Len(chars) = DateLen
    /\ \A i \in {1, 2, 3, 4, 6, 7, 9, 10} : IsDigit(chars[i])
    /\ chars[5] = "-"
    /\ chars[8] = "-"
    /\ TwoDigits(chars, 6) \in 1..12
    /\ TwoDigits(chars, 9) \in 1..DaysIn(TwoDigits(chars, 6))
\* the server casts the parameter to DATE, or raises
DateAccepted(date) ==
    \/ date = NULL
    \/ IsText(date)
    \/ IsPyStr(date) /\ IsIsoDate(Chars(date))

\* pd.to_datetime(row.get('query_timestamp')) if pd.notna(...) else None
QueryTimestamp(value) == IF value = NaN \/ value = NULL THEN NULL ELSE value

\* row_data: the tuple of one row sent to the database
RowData(row) ==
    [corporate_id |-> row.CorporateID_Clean,
     name |-> SafeValue(row.organisation_name, "str"),
     category |-> SafeValue(row.Category, "str"),
     api_status |-> SafeValue(row.api_status, "str"),
     is_active |-> SafeValue(row.is_active, "bool"),
     is_deregistered |-> SafeValue(row.is_deregistered, "bool"),
     registration_date |-> RegDate(row.registration_date),
     city |-> SafeValue(row.city, "str"),
     sni_code |-> SafeValue(row.sni_code, "str"),
     legal_form_code |-> SafeValue(row.legal_form_code, "str"),
     query_timestamp |-> QueryTimestamp(row.query_timestamp)]
DataRows(df_clean) == [i \in 1..Len(df_clean) |-> RowData(df_clean[i])]

\* INSERT INTO companies (...) VALUES d: the row stored for a new identifier
InsertedRow(d, ts) ==
    [name |-> d.name, category |-> d.category, api_status |-> d.api_status,
     is_active |-> d.is_active, is_deregistered |-> d.is_deregistered,
     registration_date |-> d.registration_date, city |-> d.city,
     sni_code |-> d.sni_code, legal_form_code |-> d.legal_form_code,
     query_timestamp |-> d.query_timestamp,
     created_at |-> ts, updated_at |-> ts]
\* mutant of UpdatedRow: the conflict update also resets created_at
UpdatedRow_ResetsCreatedAt(old, d, ts) ==
    [old EXCEPT !.name = d.name, !.category = d.category,
                !.api_status = d.api_status, !.is_active = d.is_active,
                !.created_at = ts, !.updated_at = ts]

\* mutant of UpdatedRow: the conflict update overwrites the address as well
UpdatedRow_OverwritesCity(old, d, ts) ==
    [old EXCEPT !.name = d.name, !.category = d.category,
                !.api_status = d.api_status, !.is_active = d.is_active,
                !.city = d.city, !.updated_at = ts]

\* ON CONFLICT (corporate_id) DO UPDATE SET name, category, api_status,
\* is_active = EXCLUDED..., updated_at = CURRENT_TIMESTAMP
UpdatedRow(old, d, ts) ==
    [old EXCEPT !.name = d.name, !.category = d.category,
                !.api_status = d.api_status, !.is_active = d.is_active,
                !.updated_at = ts]
\* the upsert of one row into a table (a function from corporate_id to row)
UpsertRow(table, d, ts) ==
    [k \in DOMAIN table \cup {d.corporate_id} |->
        IF k # d.corporate_id THEN table[k]
        ELSE IF k \in DOMAIN table THEN UpdatedRow(table[k], d, ts)
        ELSE InsertedRow(d, ts)]
RECURSIVE UpsertRows(_, _, _)
UpsertRows(table, rows, ts) ==
    IF rows = <<>> THEN table
    ELSE UpsertRows(UpsertRow(table, Head(rows), ts), Tail(rows), ts)

\* the rows of the page that starts after `sent` rows
PageRows(rows, sent) ==
    SubSeq(rows, sent + 1, IF sent + PageSize < Len(rows)
                           THEN sent + PageSize ELSE Len(rows))

\* mutant of CommittedAfterExecute: the connection is in autocommit mode
CommittedAfterExecute_Autocommit(committed, view) == view

\* the committed table after a statement of an open transaction: psycopg2 opens
\* a transaction at the first statement and commits nothing before commit()
CommittedAfterExecute(committed, view) == committed

EmptyTable == <<>>
NoResult == [processed |-> 0, duplicates_removed |-> 0]

\* the table an earlier load has left: one row, of a version no later load reads
PriorTable ==
    LET fi == FiFile(<< <<"3">> >>, 0)
        df == ResultFrame(<< <<<<"3">>, "success">> >>, 0)
    IN  UpsertRows(EmptyTable, DataRows(DropDuplicates(MergeRows(fi, df))), 0)

\* the files of the source data, the table as earlier loads left it, and no
\* load under way
LoadInit ==
    /\ fi_keys \in SeqsUpTo(FiKeys, MaxRows)
    /\ fi_file_ok = TRUE
    /\ records \in SeqsUpTo(Lookups, MaxRows) \ {<<>>}
    /\ companies \in {EmptyTable, PriorTable}
    /\ txn = EmptyTable
    /\ fi_data = <<>>
    /\ bolagsverket_df = <<>>
    /\ merged_df = <<>>
    /\ data_rows = <<>>
    /\ duplicate_count = 0
    /\ page = 0
    /\ lpc = "idle"
    /\ load_result = NoResult
    /\ db_time = 0
    /\ before = EmptyTable
    /\ repeated = FALSE
    /\ version = 0
    /\ loads = 0

\* no load: the state of the load's variables where the step is not modelled
LoadUnused ==
    /\ LoadInit
    /\ fi_keys = <<>>
    /\ fi_file_ok = TRUE
    /\ records = << <<<<"3">>, "success">> >>
    /\ companies = EmptyTable

\* the step is called with the file and the DataFrame of one version of the
\* source data; the same version as that of the load just made repeats its input
StartLoad(ver) ==
    /\ lpc \in {"idle", "done", "failed"}
    /\ loads < MaxLoads
    /\ fi_data' = IF fi_file_ok THEN FiFile(fi_keys, ver) ELSE <<>>
    /\ bolagsverket_df' = ResultFrame(records, ver)
    /\ merged_df' = <<>>
    /\ data_rows' = <<>>
    /\ duplicate_count' = 0
    /\ page' = 0
    /\ txn' = EmptyTable
    /\ load_result' = NoResult
    /\ before' = companies
    /\ repeated' = (lpc = "done" /\ ver = version)
    /\ version' = ver
    /\ loads' = loads + 1
    /\ lpc' = "merge"
    /\ UNCHANGED <<companies, db_time, fi_keys, fi_file_ok, records>>
    /\ UNCHANGED <<tokenVars, runVars, callVars>>

\* merge_with_finansinspektionen_data
Merge ==
    /\ lpc = "merge"
    /\ fi_file_ok
    /\ merged_df' = MergeRows(fi_data, bolagsverket_df)
    /\ lpc' = "upsert"
    /\ UNCHANGED <<companies, txn, fi_data, bolagsverket_df, data_rows,
                   duplicate_count, page, load_result, db_time, before,
                   repeated, version, fi_keys, fi_file_ok, records, loads>>
    /\ UNCHANGED <<tokenVars, runVars, callVars>>

\* mutant of MergeFallbackResult: an empty frame is returned
MergeFallbackResult_Empty(fetched_df) == <<>>

\* except Exception: return bolagsverket_df
MergeFallbackResult(fetched_df) == fetched_df

\* merge_with_finansinspektionen_data: reading the file or its key column
\* raised; the fetched frame is returned as it was given
MergeFallback ==
    /\ lpc = "merge"
    /\ ~fi_file_ok
    /\ merged_df' = MergeFallbackResult(bolagsverket_df)
    /\ lpc' = "upsert"
    /\ UNCHANGED <<companies, txn, fi_data, bolagsverket_df, data_rows,
                   duplicate_count, page, load_result, db_time, before,
                   repeated, version, fi_keys, fi_file_ok, records, loads>>
    /\ UNCHANGED <<tokenVars, runVars, callVars>>

\* bulk_upsert_companies: the frame has no CorporateID_Clean column and
\* drop_duplicates raises KeyError before any connection is opened
DropDuplicatesRaises ==
    /\ lpc = "upsert"
    /\ ~fi_file_ok
    /\ lpc' = "failed"
    /\ UNCHANGED <<companies, txn, fi_data, bolagsverket_df, merged_df,
                   data_rows, duplicate_count, page, load_result, db_time,
                   before, repeated, version, fi_keys, fi_file_ok, records,
                   loads>>
    /\ UNCHANGED <<tokenVars, runVars, callVars>>

\* bulk_upsert_companies: drop the duplicates and prepare data_rows
PrepareRows ==
    /\ lpc = "upsert"
    /\ fi_file_ok
    /\ data_rows' = DataRows(DropDuplicates(merged_df))
    /\ duplicate_count' = Len(merged_df) - Len(DropDuplicates(merged_df))
    /\ lpc' = "connect"
    /\ UNCHANGED <<companies, txn, fi_data, bolagsverket_df, merged_df, page,
                   load_result, db_time, before, repeated, version, fi_keys, fi_file_ok,
                   records, loads>>
    /\ UNCHANGED <<tokenVars, runVars, callVars>>

\* the exception of a failed database call propagates; the connection is
\* dropped with its transaction open, which the server rolls back
StorageError ==
    /\ lpc \in {"connect", "execute", "commit"}
    /\ lpc' = "failed"
    /\ txn' = EmptyTable
    /\ UNCHANGED <<companies, fi_data, bolagsverket_df, merged_df, data_rows,
                   duplicate_count, page, load_result, db_time, before,
                   repeated, version, fi_keys, fi_file_ok, records, loads>>
    /\ UNCHANGED <<tokenVars, runVars, callVars>>

\* get_connection and cursor; the transaction's CURRENT_TIMESTAMP is not
\* earlier than that of the transaction before
Connect ==
    /\ lpc = "connect"
    /\ \E ts \in db_time..MaxDbTime : db_time' = ts
    /\ txn' = companies
    /\ page' = 0
    /\ lpc' = IF data_rows = <<>> THEN "commit" ELSE "execute"
    /\ UNCHANGED <<companies, fi_data, bolagsverket_df, merged_df, data_rows,
                   duplicate_count, load_result, before, repeated, version,
                   fi_keys, fi_file_ok, records, loads>>
    /\ UNCHANGED <<tokenVars, runVars, callVars>>

\* execute_values: the statement of the next page holds a date the server
\* cannot cast; the exception propagates and the transaction is rolled back
DateCastError ==
    /\ lpc = "execute"
    /\ page < Len(data_rows)
    /\ \E i \in DOMAIN PageRows(data_rows, page) :
         ~DateAccepted(PageRows(data_rows, page)[i].registration_date)
    /\ lpc' = "failed"
    /\ txn' = EmptyTable
    /\ UNCHANGED <<companies, fi_data, bolagsverket_df, merged_df, data_rows,
                   duplicate_count, page, load_result, db_time, before,
                   repeated, version, fi_keys, fi_file_ok, records, loads>>
    /\ UNCHANGED <<tokenVars, runVars, callVars>>

\* execute_values: one INSERT ... ON CONFLICT statement for the next page
ExecutePage ==
    /\ lpc = "execute"
    /\ page < Len(data_rows)
    /\ \A i \in DOMAIN PageRows(data_rows, page) :
         DateAccepted(PageRows(data_rows, page)[i].registration_date)
    /\ txn' = UpsertRows(txn, PageRows(data_rows, page), db_time)
    /\ companies' = CommittedAfterExecute(companies, txn')
    /\ page' = page + Len(PageRows(data_rows, page))
    /\ lpc' = IF page' < Len(data_rows) THEN "execute" ELSE "commit"
    /\ UNCHANGED <<fi_data, bolagsverket_df, merged_df, data_rows,
                   duplicate_count, load_result, db_time, before, repeated,
                   version, fi_keys, fi_file_ok, records, loads>>
    /\ UNCHANGED <<tokenVars, runVars, callVars>>

\* conn.commit() and the return of bulk_upsert_companies
Commit ==
    /\ lpc = "commit"
    /\ companies' = txn
    /\ load_result' = [processed |-> Len(data_rows),
                       duplicates_removed |-> duplicate_count]
    /\ lpc' = "done"
    /\ UNCHANGED <<txn, fi_data, bolagsverket_df, merged_df, data_rows,
                   duplicate_count, page, db_time, before, repeated, version,
                   fi_keys, fi_file_ok, records, loads>>
    /\ UNCHANGED <<tokenVars, runVars, callVars>>

(***************************************************************************)
(* The pipeline: main, extract_batch_data and the worker threads.          *)
(***************************************************************************)
\* lines of the identifier file
MaxIds == 2

\* the identifiers the file can list
OrgIds == {<<"1", "-", "2">>, <<"3">>}
\* the Finansinspektionen files of the runs modelled
RunFiKeys == {<< <<"1", "2">>, <<"3">> >>}
\* the version of the source data the run reads
RunVersion == 1

\* what a lookup can meet: a 200 answer with an organisation, with an empty
\* list, with a document of another shape; an answer with another status; an
\* exception inside the try block (the transport's, a timeout, or
\* response.json() on a body that is not JSON)
LookupOutcomes == {"ok", "empty", "malformed", "http_error", "exception"}

\* query_single_organisation: the status of the dictionary it returns
QueryStatus(outcome) ==
    IF outcome \in {"ok", "empty", "malformed"} THEN "success"
    ELSE IF outcome = "http_error" THEN "error"
    ELSE "exception"

\* mutant of LookupRaises: the except clause misses the transport's exceptions
LookupRaises_Transport(outcome) == outcome = "exception"

\* query_single_organisation: whether the lookup raises out of its try block
LookupRaises(outcome) == FALSE

\* parse_organisation_data: the api_status of the record it returns
ParseStatus(outcome) ==
    IF QueryStatus(outcome) # "success" THEN QueryStatus(outcome)
    ELSE IF outcome = "empty" THEN "no_data"
    ELSE IF outcome = "malformed" THEN "parse_error"
    ELSE "success"

Min(a, b) == IF a < b THEN a ELSE b
\* batch_size = max(1, total_count // self.max_workers)
BatchSize(total, workers) == IF total \div workers > 1 THEN total \div workers ELSE 1
\* mutant of OrgBatches: the identifiers after the last full batch are left out
OrgBatches_DropsRemainder(ids, workers) ==
    LET size == BatchSize(Len(ids), workers)
    IN  [b \in 1..(Len(ids) \div size) |->
            SubSeq(ids, (b - 1) * size + 1, b * size)]

\* [org_numbers[i:i + batch_size] for i in range(0, total_count, batch_size)]
OrgBatches(ids, workers) ==
    LET size == BatchSize(Len(ids), workers)
        count == (Len(ids) + size - 1) \div size
    IN  [b \in 1..count |->
            SubSeq(ids, (b - 1) * size + 1, Min(b * size, Len(ids)))]

\* mutant of FutureRaises: the exception of a failed batch is swallowed
FutureRaises_Never(state) == FALSE

\* future.result(): re-raises the exception of a failed batch
FutureRaises(state) == state = "raised"

NoRunInfo == [written |-> 0, success |-> FALSE, error |-> "none", processed |-> 0]

\* main begins: the extractor's pool size is one of sizes, the identifier file
\* one of files
RunInitOf(sizes, files) ==
    /\ max_workers \in sizes
    /\ ids_file \in files
    /\ mpc = "start"
    /\ org_ids = <<>>
    /\ org_batches = <<>>
    /\ task_state = <<>>
    /\ task_results = <<>>
    /\ task_outcomes = <<>>
    /\ worker_task = [w \in Workers |-> 0]
    /\ collected = {}
    /\ results = <<>>
    /\ main_error = "none"
    /\ run_info = NoRunInfo
    /\ run_start_table = EmptyTable

\* the files and the pool sizes of the runs modelled
RunInit == RunInitOf(1..MaxWorkers, SeqsUpTo(OrgIds, MaxIds))

\* no run: the state of the run's variables where main is not modelled
RunUnused ==
    /\ RunInit
    /\ max_workers = MaxWorkers
    /\ ids_file = <<>>

\* the answers of the token endpoint during the runs modelled: a token that
\* lives no longer than the margin, one with the default lifetime, a refusal
\* and a failure of the transport
RunTokenResponses ==
    {r \in TokenResponses :
        \/ r.raised
        \/ r.status = 401 /\ r.body.kind = "not_json"
        \/ r.status = 200 /\ r.body.kind = "token"
              /\ r.body.expires_in \in {Margin, None}}

\* the load's variables when main begins: the table holds what an earlier run
\* has left, and the database's clock is past that run
LoadInitOfRunWith(readable) ==
    /\ fi_keys \in RunFiKeys
    /\ fi_file_ok \in readable
    /\ records = << <<<<"3">>, "success">> >>
    /\ companies = PriorTable
    /\ txn = EmptyTable
    /\ fi_data = <<>>
    /\ bolagsverket_df = <<>>
    /\ merged_df = <<>>
    /\ data_rows = <<>>
    /\ duplicate_count = 0
    /\ page = 0
    /\ lpc = "idle"
    /\ load_result = NoResult
    /\ db_time = MaxDbTime
    /\ before = EmptyTable
    /\ repeated = FALSE
    /\ version = 0
    /\ loads = 0

\* the runs in which the Finansinspektionen file is read
LoadInitOfRun == LoadInitOfRunWith({TRUE})

\* main: db_ops.setup_database() drops and recreates the tables
SetupDatabase ==
    /\ mpc = "start"
    /\ run_start_table' = companies
    /\ companies' = EmptyTable
    /\ mpc' = "load_ids"
    /\ UNCHANGED <<max_workers, ids_file, org_ids, org_batches, task_state,
                   task_results, task_outcomes, worker_task, collected, results,
                   main_error, run_info>>
    /\ UNCHANGED <<txn, fi_data, bolagsverket_df, merged_df, data_rows,
                   duplicate_count, page, lpc, load_result, db_time, before,
                   repeated, version, fi_keys, fi_file_ok, records, loads>>
    /\ UNCHANGED <<tokenVars, callVars>>

\* main: setup_database raises (no connection); its transaction is rolled back
SetupFails ==
    /\ mpc = "start"
    /\ run_start_table' = companies
    /\ main_error' = "OperationalError"
    /\ mpc' = "except"
    /\ UNCHANGED <<max_workers, ids_file, org_ids, org_batches, task_state,
                   task_results, task_outcomes, worker_task, collected, results,
                   run_info>>
    /\ UNCHANGED <<tokenVars, loadVars, callVars>>

\* main: load_finansinspektionen_ids; an empty list returns from main
LoadIds ==
    /\ mpc = "load_ids"
    /\ org_ids' = ids_file
    /\ mpc' = IF ids_file = <<>> THEN "returned" ELSE "extract"
    /\ UNCHANGED <<max_workers, ids_file, org_batches, task_state, task_results,
                   task_outcomes, worker_task, collected, results, main_error,
                   run_info, run_start_table>>
    /\ UNCHANGED <<tokenVars, loadVars, callVars>>

\* extract_batch_data: if not self.token: self.get_access_token()
ExtractGetToken ==
    /\ mpc = "extract"
    /\ mpc' = "first_token"
    /\ EnterGetAccessToken(MainThread)
    /\ UNCHANGED <<max_workers, ids_file, org_ids, org_batches, task_state,
                   task_results, task_outcomes, worker_task, collected, results,
                   main_error, run_info, run_start_table>>
    /\ UNCHANGED <<loadVars, callVars>>

\* extract_batch_data: the first token failed; the exception reaches main
FirstTokenFails ==
    /\ mpc = "first_token"
    /\ tpc[MainThread] = "raised"
    /\ main_error' = err[MainThread].type
    /\ mpc' = "except"
    /\ UNCHANGED <<max_workers, ids_file, org_ids, org_batches, task_state,
                   task_results, task_outcomes, worker_task, collected, results,
                   run_info, run_start_table>>
    /\ UNCHANGED <<tokenVars, loadVars, callVars>>

\* the per-thread record of a call of get_access_token, cleared
ClearCall(t) ==
    /\ tpc' = [tpc EXCEPT ![t] = "idle"]
    /\ ret' = [ret EXCEPT ![t] = None]
    /\ err' = [err EXCEPT ![t] = NoError]
    /\ resp' = [resp EXCEPT ![t] = NoResponse]
    /\ call' = [call EXCEPT ![t] = NoCall]
    /\ UNCHANGED <<now, token, token_expiry, token_lock, exchanges, failed,
                   realExpiry>>

\* extract_batch_data: the batches are built and submitted to the pool
SubmitBatches ==
    /\ mpc = "first_token"
    /\ tpc[MainThread] = "returned"
    /\ org_batches' = OrgBatches(org_ids, max_workers)
    /\ task_state' = [b \in DOMAIN org_batches' |-> "pending"]
    /\ task_results' = [b \in DOMAIN org_batches' |-> <<>>]
    /\ task_outcomes' = [b \in DOMAIN org_batches' |-> <<>>]
    /\ mpc' = "pool"
    /\ ClearCall(MainThread)
    /\ UNCHANGED <<max_workers, ids_file, org_ids, worker_task, collected,
                   results, main_error, run_info, run_start_table>>
    /\ UNCHANGED <<loadVars, callVars>>

\* a thread of the pool takes the batch submitted first among those waiting;
\* the threads are interchangeable, so the free thread of the lowest number
\* stands for any free thread
TakeBatch(w) ==
    /\ w <= max_workers
    /\ worker_task[w] = 0
    /\ \A v \in Workers : v < w => worker_task[v] # 0
    /\ \E b \in DOMAIN task_state :
         /\ task_state[b] = "pending"
         /\ \A a \in DOMAIN task_state : a < b => task_state[a] # "pending"
         /\ task_state' = [task_state EXCEPT ![b] = "running"]
         /\ worker_task' = [worker_task EXCEPT ![w] = b]
    /\ UNCHANGED <<max_workers, ids_file, mpc, org_ids, org_batches,
                   task_results, task_outcomes, collected, results, main_error,
                   run_info, run_start_table>>
    /\ UNCHANGED <<tokenVars, loadVars, callVars>>

\* query_single_organisation: token = self.get_access_token()
QueryGetToken(w) ==
    /\ worker_task[w] # 0
    /\ EnterGetAccessToken(w)
    /\ UNCHANGED <<loadVars, runVars, callVars>>

\* the batch of thread w ends: with its results, or with an exception
EndBatch(w, state) ==
    /\ task_state' = [task_state EXCEPT ![worker_task[w]] = state]
    /\ worker_task' = [worker_task EXCEPT ![w] = 0]

\* query_single_organisation with a token, then parse_organisation_data and
\* results.append: the record of the identifier is added to the batch's results
Lookup(w, outcome) ==
    /\ worker_task[w] # 0
    /\ tpc[w] = "returned"
    /\ ClearCall(w)
    /\ LET b == worker_task[w]
           id == org_batches[b][Len(task_results[b]) + 1]
       IN  IF LookupRaises(outcome)
           THEN /\ EndBatch(w, "raised")
                /\ UNCHANGED <<task_results, task_outcomes>>
           ELSE /\ task_results' =
                     [task_results EXCEPT ![b] = Append(@, <<id, ParseStatus(outcome)>>)]
                /\ task_outcomes' = [task_outcomes EXCEPT ![b] = Append(@, outcome)]
                /\ IF Len(task_results[b]) + 1 = Len(org_batches[b])
                   THEN EndBatch(w, "done")
                   ELSE UNCHANGED <<task_state, worker_task>>
    /\ UNCHANGED <<max_workers, ids_file, mpc, org_ids, org_batches, collected,
                   results, main_error, run_info, run_start_table>>
    /\ UNCHANGED <<loadVars, callVars>>

\* get_access_token raised in query_single_organisation: the exception leaves
\* process_organization_batch and is kept in the batch's future
BatchRaises(w) ==
    /\ worker_task[w] # 0
    /\ tpc[w] = "raised"
    /\ ClearCall(w)
    /\ EndBatch(w, "raised")
    /\ UNCHANGED <<max_workers, ids_file, mpc, org_ids, org_batches,
                   task_results, task_outcomes, collected, results, main_error,
                   run_info, run_start_table>>
    /\ UNCHANGED <<loadVars, callVars>>

\* mutant of Extend: the results of the batch replace those collected before
Extend_Replaces(collected_results, batch_results) == batch_results

\* results.extend(batch_results)
Extend(collected_results, batch_results) == collected_results \o batch_results

\* for future in as_completed(...): results.extend(future.result()); the
\* exception of a failed batch is raised here, out of the loop
Collect(b) ==
    /\ mpc = "pool"
    /\ b \in DOMAIN task_state
    /\ b \notin collected
    /\ task_state[b] \in {"done", "raised"}
    /\ collected' = collected \cup {b}
    /\ IF FutureRaises(task_state[b])
       THEN /\ mpc' = "pool_exit"
            /\ main_error' = "batch"
            /\ UNCHANGED results
       ELSE /\ results' = Extend(results, task_results[b])
            /\ UNCHANGED <<mpc, main_error>>
    /\ UNCHANGED <<max_workers, ids_file, org_ids, org_batches, task_state,
                   task_results, task_outcomes, worker_task, run_info,
                   run_start_table>>
    /\ UNCHANGED <<tokenVars, loadVars, callVars>>

\* the with block of the pool ends after an exception: shutdown(wait=True)
\* waits for every batch, also those not yet started, then the exception goes on
PoolExit ==
    /\ mpc = "pool_exit"
    /\ \A b \in DOMAIN task_state : task_state[b] \in {"done", "raised"}
    /\ mpc' = "except"
    /\ UNCHANGED <<max_workers, ids_file, org_ids, org_batches, task_state,
                   task_results, task_outcomes, worker_task, collected, results,
                   main_error, run_info, run_start_table>>
    /\ UNCHANGED <<tokenVars, loadVars, callVars>>

\* every future was taken: extract_batch_data returns the DataFrame, and main
\* calls merge_with_finansinspektionen_data
CallMerge ==
    /\ mpc = "pool"
    /\ collected = DOMAIN task_state
    /\ mpc' = "load"
    /\ fi_data' = FiFile(fi_keys, RunVersion)
    /\ bolagsverket_df' = ResultFrame(results, RunVersion)
    /\ before' = companies
    /\ version' = RunVersion
    /\ loads' = loads + 1
    /\ lpc' = "merge"
    /\ UNCHANGED <<companies, txn, merged_df, data_rows, duplicate_count, page,
                   load_result, db_time, repeated, fi_keys, fi_file_ok, records>>
    /\ UNCHANGED <<max_workers, ids_file, org_ids, org_batches, task_state,
                   task_results, task_outcomes, worker_task, collected, results,
                   main_error, run_info, run_start_table>>
    /\ UNCHANGED <<tokenVars, callVars>>

\* main: bulk_upsert_companies raised; the exception reaches main
LoadFails ==
    /\ mpc = "load"
    /\ lpc = "failed"
    /\ main_error' = IF fi_file_ok THEN "storage" ELSE "KeyError"
    /\ mpc' = "except"
    /\ UNCHANGED <<max_workers, ids_file, org_ids, org_batches, task_state,
                   task_results, task_outcomes, worker_task, collected, results,
                   run_info, run_start_table>>
    /\ UNCHANGED <<tokenVars, loadVars, callVars>>

\* main: run_info with success True is written to etl_last_run.json
WriteRunInfo ==
    /\ mpc = "load"
    /\ lpc = "done"
    /\ run_info' = [written |-> run_info.written + 1, success |-> TRUE,
                    error |-> "none", processed |-> load_result.processed]
    /\ mpc' = "finished"
    /\ UNCHANGED <<max_workers, ids_file, org_ids, org_batches, task_state,
                   task_results, task_outcomes, worker_task, collected, results,
                   main_error, run_start_table>>
    /\ UNCHANGED <<tokenVars, loadVars, callVars>>

\* main: except Exception: error_info with success False is written
WriteErrorInfo ==
    /\ mpc = "except"
    /\ run_info' = [written |-> run_info.written + 1, success |-> FALSE,
                    error |-> main_error, processed |-> 0]
    /\ mpc' = "finished"
    /\ UNCHANGED <<max_workers, ids_file, org_ids, org_batches, task_state,
                   task_results, task_outcomes, worker_task, collected, results,
                   main_error, run_start_table>>
    /\ UNCHANGED <<tokenVars, loadVars, callVars>>

(***************************************************************************)
(* query_single_organisation and parse_organisation_data on one answer.    *)
(***************************************************************************)
\* str(...)[:200] and str(e)[:100], with the limits scaled down
ErrorMessageLimit == 3
ParseMessageLimit == 2
\* the longest classification list of a payload
MaxSniLen == 2

\* s[:n]
Truncate(s, n) == SubSeq(s, 1, Min(n, Len(s)))

\* JSON values as Python holds them: None, str, list, dict
JNull == [null |-> TRUE]
JStr(chars) == [str |-> chars]
JList(items) == [list |-> items]
JDict(fields) == [dict |-> fields]
EmptyDict == JDict(<<>>)
\* the body of an answer that is not a JSON document
NotJson == [invalid |-> TRUE]

IsNull(x) == "null" \in DOMAIN x
IsStr(x) == "str" \in DOMAIN x
IsList(x) == "list" \in DOMAIN x
IsDict(x) == "dict" \in DOMAIN x
\* d.get(key, default) of a dict
Get(d, key, default) == IF key \in DOMAIN d.dict THEN d.dict[key] ELSE default
\* the truth value of x
Truthy(x) ==
    IF IsNull(x) THEN FALSE
    ELSE IF IsDict(x) THEN DOMAIN x.dict # {}
    ELSE IF IsList(x) THEN x.list # <<>>
    ELSE x.str # <<>>
\* key in x: a key of a dict, an item of a list; the strings of the model
\* are too short to contain a key
In(key, x) ==
    IF IsDict(x) THEN key \in DOMAIN x.dict
    ELSE IF IsList(x) THEN \E i \in DOMAIN x.list : x.list[i] = JStr(key)
    ELSE FALSE
\* d without the key
Without(d, key) == JDict([k \in DOMAIN d.dict \ {key} |-> d.dict[k]])
\* d with the key set
With(d, key, val) ==
    JDict([k \in DOMAIN d.dict \cup {key} |->
              IF k = key THEN val ELSE d.dict[k]])

\* the messages of the exceptions
TransportMessages == {<<"t", "o">>, <<"t", "i", "m", "e", "d", " ", "o", "u", "t">>}
BodyTexts == {<<"n", "o">>, <<"n", "o", "t", " ", "f", "o", "u", "n", "d">>}
JsonErrorMessage == <<"E", "x", "p", "e", "c", "t", "i", "n", "g">>
AttributeErrorMessage == <<"n", "o", " ", "a", "t", "t", "r">>
KeyErrorMessage == <<"0">>

\* the classification codes and entries of the payloads
SniCodes == {<<"6", "4">>, <<"7", "0">>}
FiveSpaces == <<" ", " ", " ", " ", " ">>
SniEntries ==
    {JDict([kod |-> JStr(c), klartext |-> JStr(<<"d">> \o c)]) : c \in SniCodes}
      \cup {JDict([kod |-> JStr(<<>>), klartext |-> JStr(<<"e">>)]),
            JDict([kod |-> JStr(FiveSpaces), klartext |-> JStr(<<"f">>)]),
            JDict([kod |-> JStr(<<" ", " ">>), klartext |-> JStr(<<"g">>)]),
            JDict([klartext |-> JStr(<<"h">>)]),
            JDict([kod |-> JNull, klartext |-> JStr(<<"i">>)])}
SniLists == SeqsUpTo(SniEntries, MaxSniLen)

\* an organisation with every part present, and the classification list given
BaseOrg(sni_list) ==
    JDict([avregistreradOrganisation |-> JNull,
           juridiskForm |-> JDict([kod |-> JStr(<<"A", "B">>),
                                   klartext |-> JStr(<<"a", "b">>)]),
           organisationsnamn |->
               JDict([organisationsnamnLista |->
                          JList(<<JDict([namn |-> JStr(<<"N">>)])>>)]),
           postadressOrganisation |->
               JDict([postadress |->
                          JDict([utdelningsadress |-> JStr(<<"s">>),
                                 postort |-> JStr(<<"c">>),
                                 postnummer |-> JStr(<<"1">>),
                                 land |-> JStr(<<"S">>)])]),
           naringsgrenOrganisation |-> JDict([sni |-> sni_list]),
           organisationsdatum |->
               JDict([registreringsdatum |-> JStr(<<"2", "0">>)]),
           verksamOrganisation |-> JDict([kod |-> JStr(<<"J", "A">>)])])

OrgParts == {"avregistreradOrganisation", "juridiskForm", "organisationsnamn",
             "postadressOrganisation", "naringsgrenOrganisation",
             "organisationsdatum", "verksamOrganisation"}
\* what a part of an organisation can be instead
PartValues ==
    {JNull, JStr(<<"x">>), JList(<<>>), EmptyDict,
     JDict([kod |-> JStr(<<"N", "E", "J">>)]),
     JDict([organisationsnamnLista |-> JList(<<>>)]),
     JDict([organisationsnamnLista |-> JList(<<JNull>>)]),
     JDict([postadress |-> JNull]),
     JDict([sni |-> JStr(<<"x">>)]),
     JDict([sni |-> JDict([kod |-> JStr(<<"6", "4">>)])])}

\* the organisations of the payloads: every classification list, and every
\* part missing or replaced
Orgs ==
    {BaseOrg(JList(l)) : l \in SniLists}
      \cup {Without(BaseOrg(JList(<<>>)), part) : part \in OrgParts}
      \cup {With(BaseOrg(JList(<<>>)), part, val) : part \in OrgParts, val \in PartValues}

\* the documents of a 200 answer
Payloads ==
    {JNull, JList(<<>>), JStr(<<"x">>), EmptyDict,
     JDict([organisationer |-> JList(<<>>)]),
     JDict([organisationer |-> JNull]),
     JDict([organisationer |-> JStr(<<"x">>)]),
     JDict([organisationer |-> JDict([a |-> JNull])]),
     JDict([organisationer |-> JList(<<JNull>>)]),
     JDict([organisationer |-> JList(<<JStr(<<"x">>)>>)])}
      \cup {JDict([organisationer |-> JList(<<org>>)]) : org \in Orgs}

\* what session.post gives: an exception, or a response
Responses ==
    {[raised |-> TRUE, message |-> m, status_code |-> 0, text |-> <<>>,
      json |-> NotJson] : m \in TransportMessages}
      \cup {[raised |-> FALSE, message |-> <<>>, status_code |-> c, text |-> b,
             json |-> NotJson] : c \in {200, 201, 404}, b \in BodyTexts}
      \cup {[raised |-> FALSE, message |-> <<>>, status_code |-> 200,
             text |-> <<"j">>, json |-> d] : d \in Payloads}

\* except Exception as e: the dictionary with status exception
ExceptionResult(org, message) ==
    [org_number |-> org, status |-> "exception",
     error_message |-> Truncate(message, ErrorMessageLimit)]

\* query_single_organisation once the token is there: the try block
QuerySingleOrganisation(org, answer) ==
    IF answer.raised THEN ExceptionResult(org, answer.message)
    ELSE IF answer.status_code = 200
    THEN IF answer.json = NotJson
         THEN ExceptionResult(org, JsonErrorMessage)
         ELSE [org_number |-> org, status |-> "success", data |-> answer.json]
    ELSE [org_number |-> org, status |-> "error",
          error_code |-> answer.status_code,
          error_message |-> Truncate(answer.text, ErrorMessageLimit)]

NotCalled == [called |-> FALSE]

\* the names, the payloads and the values of the calls not under way
CallsInit ==
    /\ org_number = <<"3">>
    /\ response \in Responses
    /\ api_response = NotCalled
    /\ parsed_data = NotCalled
    /\ sv_value = JNull
    /\ sv_type = "str"
    /\ safe_result = NotCalled

\* no call: the state of the calls' variables where they are not modelled
CallsUnused ==
    /\ CallsInit
    /\ response = [raised |-> TRUE, message |-> <<"t", "o">>, status_code |-> 0,
                   text |-> <<>>, json |-> NotJson]

\* api_response = self.query_single_organisation(org_number)
QueryCall ==
    /\ api_response = NotCalled
    /\ api_response' = QuerySingleOrganisation(org_number, response)
    /\ UNCHANGED <<org_number, response, parsed_data, sv_value, sv_type,
                   safe_result>>
    /\ UNCHANGED <<tokenVars, loadVars, runVars>>

\* a step of the try block of parse_organisation_data: the keys it adds to
\* parsed, or the exception it raises
Ok(fields) == [raised |-> FALSE, message |-> <<>>, fields |-> fields]
Fail(message) == [raised |-> TRUE, message |-> message, fields |-> <<>>]
\* step a, then step b unless a raised
Then(a, b) ==
    IF a.raised THEN a
    ELSE IF b.raised THEN b
    ELSE Ok(a.fields @@ b.fields)

\* x[0] of a value that is not empty
FirstItem(x) == IF IsStr(x) THEN JStr(<<x.str[1]>>) ELSE x.list[1]

\* next((sni for sni in sni_list if sni.get("kod", "").strip()
\*       and sni.get("kod") != "     "), None): the entries are examined in
\* order until one qualifies
RECURSIVE MainSni(_)
MainSni(sni_list) ==
    IF sni_list = <<>> THEN Ok(<<>>)
    ELSE LET sni == Head(sni_list)
         IN  IF ~IsDict(sni) THEN Fail(AttributeErrorMessage)
             ELSE LET kod == Get(sni, "kod", JStr(<<>>))
                  IN  IF ~IsStr(kod) THEN Fail(AttributeErrorMessage)
                      ELSE IF StrStrip(kod.str) # <<>> /\ kod.str # FiveSpaces
                      THEN Ok([sni_code |-> Get(sni, "kod", JNull),
                               sni_description |-> Get(sni, "klartext", JNull)])
                      ELSE MainSni(Tail(sni_list))

\* parsed = {...}: the first keys
ParseHead(org_no, org) ==
    IF ~IsDict(org) THEN Fail(AttributeErrorMessage)
    ELSE Ok([org_number |-> org_no, api_status |-> "success",
             query_timestamp |-> <<"timestamp">>,
             is_deregistered |->
                 IF Get(org, "avregistreradOrganisation", JNull) # JNull
                 THEN PyTrue ELSE PyFalse])

\* juridiskForm
ParseLegalForm(org) ==
    LET juridisk_form == Get(org, "juridiskForm", EmptyDict)
    IN  IF ~IsDict(juridisk_form) THEN Fail(AttributeErrorMessage)
        ELSE Ok([legal_form_code |-> Get(juridisk_form, "kod", JNull),
                 legal_form_description |-> Get(juridisk_form, "klartext", JNull)])

\* organisationsnamn
ParseNames(org) ==
    LET org_names_data == Get(org, "organisationsnamn", EmptyDict)
    IN  IF ~(Truthy(org_names_data) /\ In("organisationsnamnLista", org_names_data))
        THEN Ok(<<>>)
        ELSE IF ~IsDict(org_names_data) THEN Fail(AttributeErrorMessage)
        ELSE LET namn_lista == Get(org_names_data, "organisationsnamnLista", JList(<<>>))
             IN  IF ~Truthy(namn_lista) THEN Ok(<<>>)
                 ELSE IF IsDict(namn_lista) THEN Fail(KeyErrorMessage)
                 ELSE IF ~IsDict(FirstItem(namn_lista)) THEN Fail(AttributeErrorMessage)
                 ELSE Ok([organisation_name |-> Get(FirstItem(namn_lista), "namn", JNull)])

\* postadressOrganisation
ParseAddress(org) ==
    LET address_data == Get(org, "postadressOrganisation", EmptyDict)
    IN  IF ~(Truthy(address_data) /\ In("postadress", address_data)) THEN Ok(<<>>)
        ELSE IF ~IsDict(address_data) THEN Fail(AttributeErrorMessage)
        ELSE LET address == Get(address_data, "postadress", EmptyDict)
             IN  IF ~IsDict(address) THEN Fail(AttributeErrorMessage)
                 ELSE Ok([street_address |-> Get(address, "utdelningsadress", JNull),
                          city |-> Get(address, "postort", JNull),
                          postal_code |-> Get(address, "postnummer", JNull),
                          country |-> Get(address, "land", JNull)])

\* naringsgrenOrganisation: a list is scanned; the items of a string or the
\* keys of a dict are strings, which have no get
ParseSni(org) ==
    LET naringsgren_data == Get(org, "naringsgrenOrganisation", EmptyDict)
    IN  IF ~(Truthy(naringsgren_data) /\ In("sni", naringsgren_data)) THEN Ok(<<>>)
        ELSE IF ~IsDict(naringsgren_data) THEN Fail(AttributeErrorMessage)
        ELSE LET sni_list == Get(naringsgren_data, "sni", JList(<<>>))
             IN  IF ~Truthy(sni_list) THEN Ok(<<>>)
                 ELSE IF ~IsList(sni_list) THEN Fail(AttributeErrorMessage)
                 ELSE MainSni(sni_list.list)

\* organisationsdatum and verksamOrganisation
ParseDates(org) ==
    LET org_datum == Get(org, "organisationsdatum", EmptyDict)
        verksam_org == Get(org, "verksamOrganisation", EmptyDict)
    IN  IF ~IsDict(org_datum) THEN Fail(AttributeErrorMessage)
        ELSE IF ~IsDict(verksam_org) THEN Fail(AttributeErrorMessage)
        ELSE Ok([registration_date |-> Get(org_datum, "registreringsdatum", JNull),
                 is_active |-> IF Get(verksam_org, "kod", JNull) = JStr(<<"J", "A">>)
                               THEN PyTrue ELSE PyFalse])

\* the record with api_status no_data
NoDataRecord(org_no) ==
    [org_number |-> org_no, api_status |-> "no_data",
     error |-> <<"No organisation data returned">>]

\* the try block of parse_organisation_data
Extraction(api) ==
    LET data == api.data
    IN  IF ~IsDict(data) THEN Fail(AttributeErrorMessage)
        ELSE LET organisations == Get(data, "organisationer", JList(<<>>))
             IN  IF ~Truthy(organisations) THEN Ok(NoDataRecord(api.org_number))
                 ELSE IF IsDict(organisations) THEN Fail(KeyErrorMessage)
                 ELSE LET org == FirstItem(organisations)
                      IN  Then(ParseHead(api.org_number, org),
                          Then(ParseLegalForm(org),
                          Then(ParseNames(org),
                          Then(ParseAddress(org),
                          Then(ParseSni(org), ParseDates(org))))))

\* mutant of ParseExcept: the exception is raised again
ParseExcept_Reraises(org_no, e) == e

\* except Exception as e: the record with api_status parse_error
ParseExcept(org_no, e) ==
    [org_number |-> org_no, api_status |-> "parse_error",
     error |-> <<"Parse error: ">> \o Truncate(e.message, ParseMessageLimit)]

\* parse_organisation_data
ParseOrganisationData(api) ==
    IF api.status # "success"
    THEN [org_number |-> api.org_number, api_status |-> api.status,
          error |-> IF "error_message" \in DOMAIN api THEN api.error_message
                    ELSE <<>>]
    ELSE LET e == Extraction(api)
         IN  IF e.raised THEN ParseExcept(api.org_number, e) ELSE e.fields

\* parsed_data = self.parse_organisation_data(api_response)
ParseCall ==
    /\ api_response # NotCalled
    /\ parsed_data = NotCalled
    /\ parsed_data' = ParseOrganisationData(api_response)
    /\ UNCHANGED <<org_number, response, api_response, sv_value, sv_type,
                   safe_result>>
    /\ UNCHANGED <<tokenVars, loadVars, runVars>>

(***************************************************************************)
(* safe_value on one cell.                                                 *)
(***************************************************************************)
CoerceStrings ==
    {<<"J", "A">>, <<"j", "a">>, <<"J", "a">>, <<"t", "r", "u", "e">>,
     <<"T", "R", "U", "E">>, <<"T", "r", "u", "e">>, <<"1">>, <<"0">>,
     <<"y", "e", "s">>, <<"Y", "E", "S">>, <<"y">>, <<"Y">>, <<"n", "o">>,
     <<"n">>, <<"j">>, <<"f", "a", "l", "s", "e">>, <<>>, <<" ">>,
     <<"n", "a", "n">>, <<"N", "a", "N">>, <<" ", "j", "a">>, <<"j", "a", " ">>,
     <<"o", "n">>, <<"s", "a", "n", "t">>}
MaxInt == 2
CoerceValues ==
    {NULL, NaN, PyTrue, PyFalse}
      \cup {PyStr(chars) : chars \in CoerceStrings}
      \cup {PyInt(n) : n \in (0 - MaxInt)..MaxInt}
\* value_type: 'bool', 'str' and any other
ValueTypes == {"bool", "str", "raw"}

CoerceInit ==
    /\ org_number = <<"3">>
    /\ response = [raised |-> TRUE, message |-> <<"t", "o">>, status_code |-> 0,
                   text |-> <<>>, json |-> NotJson]
    /\ api_response = NotCalled
    /\ parsed_data = NotCalled
    /\ sv_value \in CoerceValues
    /\ sv_type \in ValueTypes
    /\ safe_result = NotCalled

\* self.safe_value(value, value_type)
SafeValueCall ==
    /\ safe_result = NotCalled
    /\ safe_result' = [called |-> TRUE, value |-> SafeValue(sv_value, sv_type)]
    /\ UNCHANGED <<org_number, response, api_response, parsed_data, sv_value,
                   sv_type>>
    /\ UNCHANGED <<tokenVars, loadVars, runVars>>

(***************************************************************************)
(* Specifications.                                                         *)
(***************************************************************************)
vars == <<tokenVars, loadVars, runVars, callVars>>

\* the token manager called by the worker threads at any time
InitToken == TokenInit /\ LoadUnused /\ RunUnused /\ CallsUnused

SpecToken == InitToken /\ [][TokenNext]_vars

\* the reconcile-and-load step run against one database, load after load
LoadNext ==
    \/ \E ver \in Versions : StartLoad(ver)
    \/ Merge
    \/ PrepareRows
    \/ Connect
    \/ ExecutePage
    \/ Commit
    \/ StorageError

InitLoad == TokenInit /\ LoadInit /\ RunUnused /\ CallsUnused

SpecLoad == InitLoad /\ [][LoadNext]_vars

\* one execution of main; the clock does not move during it, and a token is
\* found expired by a later call when its lifetime is within the margin
RunNext ==
    \/ SetupDatabase
    \/ SetupFails
    \/ LoadIds
    \/ ExtractGetToken
    \/ \E t \in Threads : GetAccessToken_Check(t)
    \/ \E t \in Threads : \E r \in RunTokenResponses : GetAccessToken_Response(t, r)
    \/ FirstTokenFails
    \/ SubmitBatches
    \/ \E w \in Workers : TakeBatch(w)
    \/ \E w \in Workers : QueryGetToken(w)
    \/ \E w \in Workers : \E o \in LookupOutcomes : Lookup(w, o)
    \/ \E w \in Workers : BatchRaises(w)
    \/ \E b \in 1..MaxIds : Collect(b)
    \/ PoolExit
    \/ CallMerge
    \/ Merge
    \/ PrepareRows
    \/ Connect
    \/ ExecutePage
    \/ Commit
    \/ StorageError
    \/ LoadFails
    \/ WriteRunInfo
    \/ WriteErrorInfo

InitRun == TokenInit /\ LoadInitOfRun /\ RunInit /\ CallsUnused

SpecRun == InitRun /\ [][RunNext]_vars

\* a run of main with one worker, with the Finansinspektionen file readable
\* or not
FallbackNext ==
    \/ SetupDatabase
    \/ SetupFails
    \/ LoadIds
    \/ ExtractGetToken
    \/ \E t \in Threads : GetAccessToken_Check(t)
    \/ \E t \in Threads : \E r \in RunTokenResponses : GetAccessToken_Response(t, r)
    \/ FirstTokenFails
    \/ SubmitBatches
    \/ \E w \in Workers : TakeBatch(w)
    \/ \E w \in Workers : QueryGetToken(w)
    \/ \E w \in Workers : \E o \in LookupOutcomes : Lookup(w, o)
    \/ \E w \in Workers : BatchRaises(w)
    \/ \E b \in 1..MaxIds : Collect(b)
    \/ PoolExit
    \/ CallMerge
    \/ Merge
    \/ MergeFallback
    \/ PrepareRows
    \/ DropDuplicatesRaises
    \/ Connect
    \/ ExecutePage
    \/ Commit
    \/ StorageError
    \/ LoadFails
    \/ WriteRunInfo
    \/ WriteErrorInfo

InitFallback ==
    TokenInit /\ LoadInitOfRunWith(BOOLEAN) /\ CallsUnused
        /\ RunInitOf({1}, SeqsUpTo(OrgIds, MaxIds))

SpecFallback == InitFallback /\ [][FallbackNext]_vars

\* the longest identifier list and the largest pool partitioned
MaxListLen == 5
MaxPoolWorkers == 3

\* the answers of the token endpoint that grant a token
GrantingResponses == {r \in RunTokenResponses : ExchangeError(r) = NoError}

\* main up to the submission of the batches, for longer lists and larger pools
PartitionNext ==
    \/ SetupDatabase
    \/ LoadIds
    \/ ExtractGetToken
    \/ GetAccessToken_Check(MainThread)
    \/ \E r \in GrantingResponses : GetAccessToken_Response(MainThread, r)
    \/ SubmitBatches

InitPartition ==
    TokenInit /\ LoadInitOfRun /\ CallsUnused
        /\ RunInitOf(1..MaxPoolWorkers, SeqsUpTo(OrgIds, MaxListLen))

SpecPartition == InitPartition /\ [][PartitionNext]_vars

\* one lookup: the answer is classified, then parsed
FetchNext ==
    \/ QueryCall
    \/ ParseCall

InitFetch == TokenInit /\ LoadUnused /\ RunUnused /\ CallsInit

SpecFetch == InitFetch /\ [][FetchNext]_vars

\* the rows of the files of the loads that exercise the join
MaxJoinRows == 2
\* keys of the Finansinspektionen file and identifiers sent, as written: plain,
\* hyphenated, with a leading zero, with a blank before
JoinFiKeys == {<<"1", "2">>, <<"1", "-", "2">>, <<"0", "3">>, <<" ", "3">>}
JoinLookups ==
    {<<org, "success">> : org \in {<<"1", "2">>, <<"1", "-", "2">>, <<"0", "3">>, <<"3">>}}
      \cup {<< <<"3">>, "error" >>}

\* a load into an empty table
JoinLoadInit ==
    /\ fi_keys \in SeqsUpTo(JoinFiKeys, MaxJoinRows) \ {<<>>}
    /\ fi_file_ok \in BOOLEAN
    /\ records \in SeqsUpTo(JoinLookups, MaxJoinRows) \ {<<>>}
    /\ companies = EmptyTable
    /\ txn = EmptyTable
    /\ fi_data = <<>>
    /\ bolagsverket_df = <<>>
    /\ merged_df = <<>>
    /\ data_rows = <<>>
    /\ duplicate_count = 0
    /\ page = 0
    /\ lpc = "idle"
    /\ load_result = NoResult
    /\ db_time = MaxDbTime
    /\ before = EmptyTable
    /\ repeated = FALSE
    /\ version = 0
    /\ loads = 0

\* the reconcile-and-load step on identifiers written in several ways
JoinNext ==
    \/ StartLoad(RunVersion)
    \/ Merge
    \/ MergeFallback
    \/ PrepareRows
    \/ DropDuplicatesRaises
    \/ Connect
    \/ ExecutePage
    \/ Commit

InitJoin == TokenInit /\ JoinLoadInit /\ RunUnused /\ CallsUnused

SpecJoin == InitJoin /\ [][JoinNext]_vars

\* safe_value on every cell value and value type
CoerceNext ==
    \/ SafeValueCall

InitCoerce == TokenInit /\ LoadUnused /\ RunUnused /\ CoerceInit

SpecCoerce == InitCoerce /\ [][CoerceNext]_vars

\* the registration dates the lookups return: none, well-formed, well-formed
\* with a time after it, text that is no date, a date no calendar has, a date
\* without hyphens, the empty string and a number
DateInputs ==
    {NaN,
     PyStr(<<"2", "0", "2", "0", "-", "0", "1", "-", "0", "5">>),
     PyStr(<<"2", "0", "2", "0", "-", "0", "1", "-", "0", "5", "T", "1", "0">>),
     PyStr(<<"n", "o", "t", "-", "a", "-", "d", "a", "t", "e", "!">>),
     PyStr(<<"2", "0", "2", "0", "-", "1", "3", "-", "4", "5">>),
     PyStr(<<"2", "0", "2", "0", "0", "1", "0", "5">>),
     PyStr(<<>>),
     PyInt(2)}
DateFiKeys == << <<"1", "2">>, <<"3">> >>
DateLookups == {<<org, "success", date>> : org \in {<<"1", "2">>, <<"3">>}, date \in DateInputs}

\* a load into an empty table of records with every kind of registration date
DateLoadInit ==
    /\ fi_keys = DateFiKeys
    /\ fi_file_ok = TRUE
    /\ records \in SeqsUpTo(DateLookups, MaxJoinRows) \ {<<>>}
    /\ companies = EmptyTable
    /\ txn = EmptyTable
    /\ fi_data = <<>>
    /\ bolagsverket_df = <<>>
    /\ merged_df = <<>>
    /\ data_rows = <<>>
    /\ duplicate_count = 0
    /\ page = 0
    /\ lpc = "idle"
    /\ load_result = NoResult
    /\ db_time = MaxDbTime
    /\ before = EmptyTable
    /\ repeated = FALSE
    /\ version = 0
    /\ loads = 0

DateNext ==
    \/ StartLoad(RunVersion)
    \/ Merge
    \/ PrepareRows
    \/ Connect
    \/ ExecutePage
    \/ DateCastError
    \/ Commit

InitDates == TokenInit /\ DateLoadInit /\ RunUnused /\ CallsUnused

SpecDates == InitDates /\ [][DateNext]_vars

(***************************************************************************)
(* Claims about the token manager.                                         *)
(***************************************************************************)

\* C1 (token reuse): when all workers call get_access_token concurrently while
\* no token is cached, no time passes and no exchange fails, exactly one
\* credential-exchange request is sent and every caller returns the same token.
C1_TokenReuse ==
    (/\ now = StartTime
     /\ ~failed
     /\ \A t \in Workers : tpc[t] = "returned" /\ call[t].uncached)
    => (/\ exchanges = 1
        /\ \A t1, t2 \in Workers : ret[t1] = ret[t2])

\* C2 (credential margin): at the moment get_access_token returns a token, the
\* token is further than the margin from its real expiry (issue time + the
\* lifetime the endpoint reported).
C2_MarginInvariant ==
    [][\A t \in Threads :
          (tpc[t] # "returned" /\ tpc'[t] = "returned")
          => realExpiry' - now' > Margin]_vars

\* C3 (token expiry): the cache test of get_access_token returns the cached
\* token, with no request, while now is earlier than the cached token's real
\* expiry minus the margin, and sends a new credential-exchange request once
\* that point has passed (or while nothing is cached).
C3_TokenExpiry ==
    [][\A t \in Threads :
          (tpc[t] = "acquire" /\ tpc'[t] # "acquire")
          => IF token # None /\ now < realExpiry - Margin
             THEN /\ tpc'[t] = "returned"
                  /\ ret'[t] = token
                  /\ exchanges' = exchanges
             ELSE /\ tpc'[t] = "post"
                  /\ exchanges' = exchanges + 1]_vars

\* C3 witness: one worker has been served from the cache without a request and,
\* later, another one refreshes the cached token whose margin point has passed.
C3_Witness ==
    \E t1, t2 \in Workers :
        /\ tpc[t1] = "returned" /\ call[t1].posts = 0 /\ ret[t1] # None
        /\ tpc[t2] = "post" /\ token # None /\ now >= realExpiry - Margin
        /\ realExpiry - now > 0

\* C4 as stated: an answer with any non-2xx status makes get_access_token raise
\* an error carrying the status, cache nothing and send no second request.
C4_AuthFailureNon2xx ==
    [][\A t \in Threads :
          (/\ tpc[t] = "post" /\ tpc'[t] # "post"
           /\ ~resp'[t].raised
           /\ resp'[t].status \notin 200..299)
          => /\ tpc'[t] = "raised"
             /\ err'[t] = [type |-> "HTTPError", status |-> resp'[t].status]
             /\ token' = token /\ token_expiry' = token_expiry
             /\ exchanges' = exchanges /\ call'[t].posts = 1]_vars

\* C4 (auth failure, amended): an answer with a 4xx or 5xx status makes
\* get_access_token raise an HTTPError carrying the status; the cached token and
\* expiry are left as they were and the call sends no second request.
C4_AuthFailure ==
    [][\A t \in Threads :
          (/\ tpc[t] = "post" /\ tpc'[t] # "post"
           /\ ~resp'[t].raised
           /\ resp'[t].status >= 400)
          => /\ tpc'[t] = "raised"
             /\ err'[t] = [type |-> "HTTPError", status |-> resp'[t].status]
             /\ token' = token /\ token_expiry' = token_expiry
             /\ exchanges' = exchanges /\ call'[t].posts = 1]_vars

\* C4 witness: a call has raised for a 401 answer.
C4_Witness ==
    \E t \in Workers :
        tpc[t] = "raised" /\ resp[t].status = 401 /\ err[t].type = "HTTPError"

\* C25 as stated (failed refresh leaves the token manager usable): when the
\* credential exchange of a call fails, the cached token and expiry are what
\* they were, the lock is free, and the cache is not valid, so that the next
\* call sends a new exchange.
C25_FailedRefresh ==
    [][\A t \in Threads :
          (tpc[t] = "post" /\ tpc'[t] = "raised")
          => /\ token' = token
             /\ token_expiry' = token_expiry
             /\ token_lock' = Free
             /\ ~CacheValid(token', token_expiry', now')]_vars

(***************************************************************************)
(* Claims about a run of main, checked under SpecRun.                      *)
(***************************************************************************)
\* C5 (systemic failure outcome): once a credential exchange has failed, in
\* main or in any worker, the run never starts the upsert and the table holds
\* no row of it; once the bulk write has failed, the table is as it was before
\* the write; and when main ends after either failure, it has written one
\* run-outcome document, with success false and an error message.
C5_SystemicFailure ==
    /\ failed =>
         /\ lpc = "idle"
         /\ load_result = NoResult
         /\ companies = EmptyTable
    /\ lpc = "failed" => companies = before
    /\ (failed \/ lpc = "failed") =>
         /\ mpc # "returned"
         /\ mpc = "finished" =>
              /\ run_info.written = 1
              /\ run_info.success = FALSE
              /\ run_info.error # "none"

\* C5 witness: main has ended after a credential exchange failed in a worker
\* while the results of another batch had already been taken.
C5_Witness ==
    /\ mpc = "finished"
    /\ failed
    /\ results # <<>>
    /\ \E b \in DOMAIN task_state : task_state[b] = "raised"

FailureStatuses == {"error", "exception", "parse_error", "no_data"}

RECURSIVE Flatten(_)
Flatten(seqs) ==
    IF seqs = <<>> THEN <<>> ELSE Head(seqs) \o Flatten(Tail(seqs))

Count(seq, x) == Cardinality({i \in DOMAIN seq : seq[i] = x})

\* C6 (per-identifier failures never abort the batch): a batch ends with an
\* exception only after a credential exchange has failed; every lookup that did
\* not return a parsable organisation left one record of its identifier with a
\* failure status; a batch that ended normally has one record for each of its
\* identifiers, in order; and when extract_batch_data returns, its result holds
\* exactly the records of the batches, one for every identifier of the input.
C6_PerIdentifierFailures ==
    /\ \A b \in DOMAIN task_state :
         /\ task_state[b] = "raised" => failed
         /\ Len(task_outcomes[b]) = Len(task_results[b])
         /\ \A i \in DOMAIN task_results[b] :
              /\ task_results[b][i][1] = org_batches[b][i]
              /\ task_outcomes[b][i] # "ok"
                 => task_results[b][i][2] \in FailureStatuses
         /\ task_state[b] = "done" => Len(task_results[b]) = Len(org_batches[b])
    /\ main_error = "batch" => failed
    /\ mpc = "load" =>
         LET all == Flatten(task_results)
         IN  /\ Len(results) = Len(org_ids)
             /\ [i \in DOMAIN all |-> all[i][1]] = org_ids
             /\ \A i \in DOMAIN all : Count(results, all[i]) = Count(all, all[i])

\* C6 witness: extract_batch_data has returned, and in one batch a lookup that
\* failed was followed by a lookup that succeeded.
C6_Witness ==
    /\ mpc = "load"
    /\ \E b \in DOMAIN task_outcomes :
         /\ Len(task_outcomes[b]) = 2
         /\ task_outcomes[b][1] \in {"http_error", "exception", "malformed"}
         /\ task_outcomes[b][2] = "ok"
         /\ task_results[b][2][2] = "success"

\* C7 as stated: when main has ended, every row the table held when main began
\* is still in the table, with the created_at it had.
C7_RowsNeverDeleted ==
    mpc \in {"finished", "returned"} =>
      \A k \in DOMAIN run_start_table :
         /\ k \in DOMAIN companies
         /\ companies[k].created_at = run_start_table[k].created_at

\* C11 as stated (one run outcome per execution): when main has ended, by
\* whatever path, it has written exactly one run-outcome document.
C11_OneRunOutcome ==
    mpc \in {"finished", "returned"} => run_info.written = 1

\* C12 (partition completeness): the batches extract_batch_data has built,
\* concatenated in order, are the identifier list it was given, and no batch is
\* empty.
C12_PartitionComplete ==
    mpc = "pool" =>
      /\ Flatten(org_batches) = org_ids
      /\ \A b \in DOMAIN org_batches : org_batches[b] # <<>>

\* C12 witness: five identifiers were split for two workers into batches of
\* two, two and one.
C12_Witness ==
    /\ mpc = "pool"
    /\ Len(org_ids) = 5
    /\ max_workers = 2
    /\ Len(org_batches) = 3
    /\ Len(org_batches[3]) = 1

\* C21 as stated (chunk shape): the batches extract_batch_data has built are
\* exactly as many as the workers of the pool, every batch before the last has
\* the quotient of the list's length by the number of workers, and the last
\* batch has the quotient and the remainder.
C21_ChunkShape ==
    mpc = "pool" =>
      /\ Len(org_batches) = max_workers
      /\ \A b \in 1..(Len(org_batches) - 1) :
           Len(org_batches[b]) = Len(org_ids) \div max_workers
      /\ Len(org_batches[Len(org_batches)])
           = (Len(org_ids) \div max_workers) + (Len(org_ids) % max_workers)

\* C22 (order-independent aggregation): when extract_batch_data has returned,
\* in whatever order the batches were taken, every record occurs in its result
\* as often as in the results of the batches together and nothing else occurs,
\* and every identifier has as many records as it has occurrences in the input.
C22_OrderIndependent ==
    mpc = "load" =>
      LET all == Flatten(task_results)
      IN  /\ \A i \in DOMAIN results : Count(all, results[i]) = Count(results, results[i])
          /\ \A i \in DOMAIN all : Count(results, all[i]) = Count(all, all[i])
          /\ \A i \in DOMAIN org_ids :
               Cardinality({j \in DOMAIN results : results[j][1] = org_ids[i]})
                 = Count(org_ids, org_ids[i])

\* C22 witness: the second batch was taken before the first, so the result is
\* in another order than the batches.
C22_Witness ==
    /\ mpc = "load"
    /\ Len(org_batches) = 2
    /\ results = task_results[2] \o task_results[1]
    /\ results # Flatten(task_results)

\* C26 (reconciliation failure path), checked under SpecFallback: in a run
\* whose Finansinspektionen file cannot be read, the merge returns the fetched
\* frame as it is; bulk_upsert_companies then fails without preparing a row,
\* opening a transaction or writing to the table; and when main has ended after
\* it, the one run outcome written has success false.
C26_FallbackNeverPersists ==
    ~fi_file_ok =>
      /\ lpc \in {"upsert", "failed"} => merged_df = bolagsverket_df
      /\ lpc \notin {"connect", "execute", "commit", "done"}
      /\ data_rows = <<>>
      /\ txn = EmptyTable
      /\ lpc # "idle" => companies = EmptyTable
      /\ (mpc = "finished" /\ lpc # "idle")
         => /\ lpc = "failed"
            /\ run_info.written = 1
            /\ ~run_info.success

\* C26 witness: a run with an unreadable file has ended after the load failed
\* on the unmerged frame of fetched records, one of them a success.
C26_Witness ==
    /\ ~fi_file_ok
    /\ mpc = "finished"
    /\ lpc = "failed"
    /\ merged_df = bolagsverket_df
    /\ \E i \in DOMAIN bolagsverket_df : bolagsverket_df[i].api_status = <<"success">>
    /\ ~run_info.success

(***************************************************************************)
(* Claims about one lookup, checked under SpecFetch.                       *)
(***************************************************************************)
\* C13 as stated (fetch classification): an answer with status 200 gives status
\* success with the body; an answer with another status gives status error with
\* the status code and the truncated body; an exception of the request gives
\* status exception with the truncated message.
C13_FetchClassification ==
    api_response # NotCalled =>
      /\ (~response.raised /\ response.status_code = 200)
         => /\ api_response.status = "success"
            /\ api_response.data = response.json
      /\ (~response.raised /\ response.status_code # 200)
         => /\ api_response.status = "error"
            /\ api_response.error_code = response.status_code
            /\ api_response.error_message = Truncate(response.text, ErrorMessageLimit)
      /\ response.raised
         => /\ api_response.status = "exception"
            /\ api_response.error_message = Truncate(response.message, ErrorMessageLimit)

StatusTags == {"success", "no_data", "parse_error", "error", "exception"}

\* C14 (parser totality): what parse_organisation_data returns is a record
\* with the identifier and a status tag, never an exception; a fetch that did
\* not succeed keeps its status; and when the extraction raises, the record has
\* status parse_error and the truncated message.
C14_ParserTotality ==
    parsed_data # NotCalled =>
      /\ "raised" \notin DOMAIN parsed_data
      /\ "org_number" \in DOMAIN parsed_data
      /\ "api_status" \in DOMAIN parsed_data
      /\ parsed_data.org_number = org_number
      /\ parsed_data.api_status \in StatusTags
      /\ api_response.status # "success"
         => parsed_data.api_status = api_response.status
      /\ (api_response.status = "success" /\ Extraction(api_response).raised)
         => /\ parsed_data.api_status = "parse_error"
            /\ Len(parsed_data.error) <= 1 + ParseMessageLimit
            /\ parsed_data.error =
                 <<"Parse error: ">>
                   \o Truncate(Extraction(api_response).message, ParseMessageLimit)

\* C14 witness: the extraction raised on a payload of a 200 answer, with a
\* message longer than the limit, and the parser returned a parse_error record.
C14_Witness ==
    /\ parsed_data # NotCalled
    /\ api_response.status = "success"
    /\ Extraction(api_response).raised
    /\ Len(Extraction(api_response).message) > ParseMessageLimit
    /\ parsed_data.api_status = "parse_error"

\* an entry of a classification list whose code is neither blank nor all spaces
Qualifies(entry) ==
    /\ IsDict(entry)
    /\ "kod" \in DOMAIN entry.dict
    /\ IsStr(entry.dict.kod)
    /\ StrStrip(entry.dict.kod.str) # <<>>

\* C15 as stated (classification selection): for every classification list of
\* an otherwise complete organisation, the record holds the code and the
\* description of the first entry that qualifies, and neither field when no
\* entry qualifies.
C15_ClassificationSelection ==
    \A l \in SniLists :
      (/\ parsed_data # NotCalled
       /\ ~response.raised
       /\ response.status_code = 200
       /\ response.json = JDict([organisationer |-> JList(<<BaseOrg(JList(l))>>)]))
      => LET q == {i \in DOMAIN l : Qualifies(l[i])}
         IN  IF q = {}
             THEN /\ "sni_code" \notin DOMAIN parsed_data
                  /\ "sni_description" \notin DOMAIN parsed_data
             ELSE LET first == CHOOSE i \in q : \A j \in q : i <= j
                  IN  /\ "sni_code" \in DOMAIN parsed_data
                      /\ parsed_data.sni_code = l[first].dict.kod
                      /\ parsed_data.sni_description = l[first].dict.klartext

(***************************************************************************)
(* Claims about the reconcile-and-load step.                               *)
(***************************************************************************)
WithoutUpdatedAt(table) ==
    [k \in DOMAIN table |-> [table[k] EXCEPT !.updated_at = 0]]

\* C8 as stated: a load that repeats the input of the load before it leaves
\* every row of companies with the same values in every column.
C8_IdempotentExact ==
    (lpc = "done" /\ repeated) => companies = before

\* C8 (idempotence, amended): a load that repeats the input of the load before
\* it leaves companies with the same rows and the same values in every column
\* but updated_at.
C8_Idempotent ==
    (lpc = "done" /\ repeated)
    => WithoutUpdatedAt(companies) = WithoutUpdatedAt(before)

\* C8 witness: a repeated load has committed rows that the load before it had
\* written, at a later CURRENT_TIMESTAMP.
C8_Witness ==
    /\ lpc = "done" /\ repeated /\ data_rows # <<>>
    /\ \E k \in DOMAIN before : companies[k].updated_at > before[k].updated_at

\* C9 (upsert conflict frame): after a load commits, a row whose identifier
\* was in companies has name, category, api_status and is_active of the new
\* row, updated_at of this transaction, and created_at and every other column
\* as before; a row whose identifier was not in companies is inserted with all
\* its columns; no other row changes.
C9_ConflictFrame ==
    lpc = "done" =>
      /\ DOMAIN companies =
           DOMAIN before \cup {data_rows[i].corporate_id : i \in 1..Len(data_rows)}
      /\ \A k \in DOMAIN before :
           (\A i \in 1..Len(data_rows) : data_rows[i].corporate_id # k)
           => companies[k] = before[k]
      /\ \A i \in 1..Len(data_rows) :
           LET d == data_rows[i]
               new == companies[d.corporate_id]
           IN  /\ new.name = d.name
               /\ new.category = d.category
               /\ new.api_status = d.api_status
               /\ new.is_active = d.is_active
               /\ new.updated_at = db_time
               /\ IF d.corporate_id \in DOMAIN before
                  THEN LET old == before[d.corporate_id]
                       IN  /\ new.created_at = old.created_at
                           /\ new.is_deregistered = old.is_deregistered
                           /\ new.registration_date = old.registration_date
                           /\ new.city = old.city
                           /\ new.sni_code = old.sni_code
                           /\ new.legal_form_code = old.legal_form_code
                           /\ new.query_timestamp = old.query_timestamp
                  ELSE /\ new.created_at = db_time
                       /\ new.is_deregistered = d.is_deregistered
                       /\ new.registration_date = d.registration_date
                       /\ new.city = d.city
                       /\ new.sni_code = d.sni_code
                       /\ new.legal_form_code = d.legal_form_code
                       /\ new.query_timestamp = d.query_timestamp

\* C9 witness: a committed load has updated an existing row from which the new
\* row differed in every column, at a later timestamp, and has inserted a row.
C9_Witness ==
    /\ lpc = "done"
    /\ \E i \in 1..Len(data_rows) : data_rows[i].corporate_id \notin DOMAIN before
    /\ \E i \in 1..Len(data_rows) :
         LET d == data_rows[i]
         IN  /\ d.corporate_id \in DOMAIN before
             /\ LET old == before[d.corporate_id]
                IN  /\ d.name # old.name /\ d.category # old.category
                    /\ d.is_active # old.is_active
                    /\ d.is_deregistered # old.is_deregistered
                    /\ d.registration_date # old.registration_date
                    /\ d.city # old.city /\ d.sni_code # old.sni_code
                    /\ d.legal_form_code # old.legal_form_code
                    /\ d.query_timestamp # old.query_timestamp
                    /\ db_time > old.created_at

\* C10 (all-or-nothing write): from the start of a load until its commit, and
\* after a failure at any point, companies holds exactly the rows it held when
\* the load began; once the load has committed, every row of the load is there.
C10_AllOrNothing ==
    /\ lpc \in {"merge", "upsert", "connect", "execute", "commit", "failed"}
       => companies = before
    /\ lpc = "done"
       => \A i \in 1..Len(data_rows) :
             /\ data_rows[i].corporate_id \in DOMAIN companies
             /\ companies[data_rows[i].corporate_id].updated_at = db_time

\* C10 witness: the bulk upsert has failed after a page of rows was sent, with
\* rows still to send, and the rows sent were new to the table.
C10_Witness ==
    /\ lpc = "failed"
    /\ page >= 1 /\ page < Len(data_rows)
    /\ data_rows[1].corporate_id \notin DOMAIN companies

\* C20 as stated (fatal error aborts the in-flight pool): once the batch of
\* one worker has ended with the exception of a failed credential exchange, no
\* step of the run records a further lookup or sends a further credential
\* exchange for another worker.
C20_PoolAborted ==
    [][(\E b \in DOMAIN task_state : task_state[b] = "raised")
         => /\ task_results' = task_results
            /\ exchanges' = exchanges]_vars

\* the complete organisation with one nested field absent: a part missing or
\* null, the address null inside its block, or a classification entry without
\* a code or with a null code
OrgsWithAbsence ==
    {Without(BaseOrg(JList(<<>>)), part) : part \in OrgParts}
      \cup {With(BaseOrg(JList(<<>>)), part, JNull) : part \in OrgParts}
      \cup {With(BaseOrg(JList(<<>>)), "postadressOrganisation",
                 JDict([postadress |-> JNull]))}
      \cup {BaseOrg(JList(<<e>>)) :
               e \in {JDict([klartext |-> JStr(<<"i">>)]),
                      JDict([kod |-> JNull, klartext |-> JStr(<<"i">>)])}}

\* C23 as stated (tolerant extraction): a 200 answer whose first organisation
\* lacks one nested field, by a missing key or a null value, is parsed into a
\* record with status success.
C23_TolerantExtraction ==
    (/\ parsed_data # NotCalled
     /\ ~response.raised
     /\ response.status_code = 200
     /\ \E org \in OrgsWithAbsence :
           response.json = JDict([organisationer |-> JList(<<org>>)]))
    => parsed_data.api_status = "success"

(***************************************************************************)
(* Claims about the join and the duplicates, checked under SpecJoin.       *)
(***************************************************************************)
\* the rows of the merged frame that come from row i of the file
RowsOfFi(i) == {j \in DOMAIN merged_df : merged_df[j].Category = fi_data[i].Category}
\* the records whose identifier, as the merge normalizes both, is the key of
\* row i of the file
MatchesOfFi(i) ==
    {r \in DOMAIN bolagsverket_df :
        NormalizeOrgNumber(bolagsverket_df[r].org_number)
          = NormalizeFiKey(fi_data[i].CorporateID_Clean)}

\* the merged frame is the left join of the file with the fetched records
LeftJoined ==
    /\ \A i \in DOMAIN fi_data :
         /\ RowsOfFi(i) # {}
         /\ MatchesOfFi(i) = {}
            => /\ Cardinality(RowsOfFi(i)) = 1
               /\ \A j \in RowsOfFi(i) : merged_df[j] = UnmatchedRow(fi_data[i])
         /\ MatchesOfFi(i) # {}
            => /\ Cardinality(RowsOfFi(i)) = Cardinality(MatchesOfFi(i))
               /\ \A j \in RowsOfFi(i) :
                    \E r \in MatchesOfFi(i) :
                       merged_df[j] = MergedRow(fi_data[i], bolagsverket_df[r])
    /\ \A j \in DOMAIN merged_df :
         /\ "Category" \in DOMAIN merged_df[j]
         /\ \E i \in DOMAIN fi_data : j \in RowsOfFi(i)

Stripped(raw) == StrStrip(RemoveHyphens(raw))

\* C17 as stated (identifier normalization): once the frames are merged, every
\* row of the file whose key differs from the identifier of a fetched record
\* only in hyphens or surrounding blanks is joined to a fetched record.
C17_Normalization ==
    (fi_file_ok /\ lpc \in {"upsert", "connect", "execute", "commit", "done"}) =>
      \A i \in DOMAIN fi_data :
         (\E r \in DOMAIN bolagsverket_df :
             Stripped(bolagsverket_df[r].org_number)
               = Stripped(fi_data[i].CorporateID_Clean))
         => \E j \in RowsOfFi(i) : merged_df[j].api_status # NaN

\* the identifier of the file row that the row sent to the database came from
EntityOf(d) ==
    LET i == CHOOSE i \in DOMAIN fi_data : fi_data[i].Category = d.category
    IN  Stripped(fi_data[i].CorporateID_Clean)

\* C18 as stated (dedup correctness): the rows sent to the database are the
\* first rows of their keys, the count of duplicates is the number of rows
\* dropped, and no two rows sent come from file rows whose keys differ only in
\* hyphens or blanks.
C18_DedupCorrect ==
    /\ lpc \in {"connect", "execute", "commit", "done"} =>
         /\ data_rows = DataRows(DropDuplicates(merged_df))
         /\ \A a, b \in DOMAIN data_rows :
              data_rows[a].corporate_id = data_rows[b].corporate_id => a = b
         /\ \A d \in DOMAIN data_rows :
              LET first == CHOOSE j \in DOMAIN merged_df :
                              /\ merged_df[j].CorporateID_Clean = data_rows[d].corporate_id
                              /\ \A h \in 1..(j - 1) :
                                   merged_df[h].CorporateID_Clean # data_rows[d].corporate_id
              IN  data_rows[d] = RowData(merged_df[first])
         /\ duplicate_count = Len(merged_df) - Len(data_rows)
         /\ \A a, b \in DOMAIN data_rows :
              EntityOf(data_rows[a]) = EntityOf(data_rows[b]) => a = b
    /\ lpc = "done" =>
         load_result.processed + load_result.duplicates_removed = Len(merged_df)

(***************************************************************************)
(* Claims about safe_value, checked under SpecCoerce.                      *)
(***************************************************************************)
\* the call safe_value(v, 'bool') has returned
CoercedBool == safe_result # NotCalled /\ sv_type = "bool"

\* C19 as stated (boolean coercion): safe_value(v, 'bool') returns true only
\* for the literal true and for the strings that are, in any case, "true",
\* "1", "yes" or "ja"; everything else gives null or false.
C19_BooleanCoercion ==
    CoercedBool =>
      /\ safe_result.value \in {PyTrue, PyFalse, NULL}
      /\ safe_result.value = PyTrue
         => \/ sv_value = PyTrue
            \/ /\ IsPyStr(sv_value)
               /\ Lower(Chars(sv_value))
                    \in {<<"t", "r", "u", "e">>, <<"1">>, <<"y", "e", "s">>,
                         <<"j", "a">>}

\* C19 amended: safe_value(v, 'bool') always returns true, false or null:
\* None, NaN and the strings that spell "nan" give null; a literal boolean is
\* returned as it is; a string gives true when it is, in any case, "true",
\* "1", "yes", "ja" or "y", and false otherwise; any other value gives its
\* truth value, true for a number other than zero.  "JA", true, "1", "no" and
\* None give true, true, true, false and null.
C19_BooleanCoercionWithY ==
    CoercedBool =>
      /\ safe_result.value \in {PyTrue, PyFalse, NULL}
      /\ sv_value \in {NULL, NaN} => safe_result.value = NULL
      /\ IsPyBool(sv_value) => safe_result.value = sv_value
      /\ IsPyStr(sv_value) =>
           LET word == [i \in DOMAIN Chars(sv_value) |-> LowerChar(Chars(sv_value)[i])]
           IN  safe_result.value =
                 IF word = <<"n", "a", "n">> THEN NULL
                 ELSE IF word \in {<<"t", "r", "u", "e">>, <<"1">>,
                                   <<"y", "e", "s">>, <<"j", "a">>, <<"y">>}
                 THEN PyTrue
                 ELSE PyFalse
      /\ IsPyInt(sv_value) =>
           safe_result.value = IF sv_value = PyInt(0) THEN PyFalse ELSE PyTrue
      /\ sv_value = PyStr(<<"J", "A">>) => safe_result.value = PyTrue
      /\ sv_value = PyTrue => safe_result.value = PyTrue
      /\ sv_value = PyStr(<<"1">>) => safe_result.value = PyTrue
      /\ sv_value = PyStr(<<"n", "o">>) => safe_result.value = PyFalse
      /\ sv_value = NULL => safe_result.value = NULL

\* C19 witness: safe_value("JA", 'bool') has returned true.
C19_Witness ==
    /\ CoercedBool
    /\ sv_value = PyStr(<<"J", "A">>)
    /\ safe_result.value = PyTrue

(***************************************************************************)
(* Claims about the dates of a load, checked under SpecDates.              *)
(***************************************************************************)
\* a registration date is well-formed: a str that begins with a calendar date
WellFormedDate(value) ==
    /\ IsPyStr(value)
    /\ Len(Chars(value)) >= DateLen
    /\ IsIsoDate(SubSeq(Chars(value), 1, DateLen))

\* the row of the merged frame that the prepared row d came from
MergedRowOf(d) == CHOOSE j \in DOMAIN merged_df : merged_df[j].Category = d.category

\* C24 as stated (date handling in load): once the rows are prepared, the date
\* of every row is the first 10 characters of a well-formed registration date
\* and null for a missing or malformed one, and the bulk write never fails.
C24_DateHandling ==
    /\ lpc # "failed"
    /\ lpc \in {"connect", "execute", "commit", "done"} =>
         \A i \in DOMAIN data_rows :
            LET reg_date == merged_df[MergedRowOf(data_rows[i])].registration_date
            IN  data_rows[i].registration_date =
                  IF WellFormedDate(reg_date)
                  THEN PyStr(SubSeq(Chars(reg_date), 1, DateLen))
                  ELSE NULL

====
